---- MODULE Spec2Model ----
(***************************************************************************)
(* Invocation engine of magsag: AgentRunner.invoke_mag, invoke_sag and     *)
(* invoke_sag_async (src/src/magsag/runners/agent_runner.py), the          *)
(* synchronous/asynchronous bridge _run_async_safely, the scoped           *)
(* process-wide deterministic flag, and the collaborators of a run: the    *)
(* protocol runtime, the session store, the JSON stream parser, the engine *)
(* runs and the metrics registry.                                          *)
(*                                                                         *)
(* Spec         one invocation of invoke_mag, invoke_sag, invoke_sag_async *)
(* SpecBridge   calls of _run_async_safely, caller and worker thread       *)
(* SpecDet      overlapping invocations sharing the deterministic flag     *)
(* SpecSkill    delegations sharing one SkillRuntime and its servers       *)
(* SpecCalls    invocations, the maps and the descriptor their callers own *)
(* SpecMetrics  threads recording into and reading the metrics registry    *)
(* SpecTool     MCPRuntime.execute_tool under permissions and policies     *)
(* SpecStore    threads and processes upserting into one SessionStore      *)
(* SpecJson     a stream of JSON lines fed in chunks to JsonStreamParser   *)
(* SpecRun      execute_run: the MAG engine, the SAG engine, the record    *)
(***************************************************************************)
EXTENDS Integers, Sequences, FiniteSets, TLC

(* ---- bounds of the explored inputs ---- *)
MaxAttempts == 3
BackoffMs == 10
MaxBridgeCalls == 2
NumInvocations == 2
NumTasks == 2
MaxToolCalls == 2
NumWriters == 2
MaxLines == 2
MaxRuns == 2

(* ---- program constants ---- *)
MS_PER_SECOND == 1000
BRIDGE_DELAY_MS == 500

(* ---- exceptions and values ---- *)
NoError == [type |-> "None", msg |-> "None"]
BodyMsgs == {"boom1", "boom2"}
BodyErrTypes == {"RuntimeError", "ValueError"}
BodyErrors == [type : BodyErrTypes, msg : BodyMsgs]
Outputs == {"out1", "out2"}
NoOutput == "empty"
LoopRunningError == [type |-> "RuntimeError", msg |-> "asyncio.run() cannot be called from a running event loop"]
PreEvalFailClosed == [type |-> "RuntimeError", msg |-> "Pre-evaluation failed (fail-closed)"]
PostEvalFailClosed == [type |-> "RuntimeError", msg |-> "Post-evaluation failed (fail-closed)"]
ModelOutputBlocked == [type |-> "ValueError", msg |-> "Moderation check failed at model_output"]
IngressBlocked == [type |-> "ValueError", msg |-> "Moderation check failed at ingress"]
EgressBlocked == [type |-> "ValueError", msg |-> "Moderation check failed at egress"]
NotAsyncError == [type |-> "ValueError", msg |-> "must be async"]
UnknownAgentError == [type |-> "FileNotFoundError", msg |-> "agent not found"]
SettingsError == [type |-> "Exception", msg |-> "apply_deterministic_settings failed"]
PlanError == [type |-> "Exception", msg |-> "get_plan failed"]
SetupError == [type |-> "AttributeError", msg |-> "retry_policy"]

(* str(last_error): the message of an exception, "None" for None *)
Str(e) == e.msg

(* a coroutine's outcome: a returned value or a raised exception *)
Returned(v) == [kind |-> "return", val |-> v, err |-> NoError]
Raised(e) == [kind |-> "raise", val |-> NoOutput, err |-> e]
NoOutcome == [kind |-> "none", val |-> NoOutput, err |-> NoError]

(* _run_async_safely as its caller sees it: with a running loop the        *)
(* coroutine runs in a worker thread and its exception is re-raised        *)
(* inside the try whose handler is `except RuntimeError`, which then calls *)
(* asyncio.run(coro) under the running loop; with no loop the coroutine's  *)
(* outcome is passed through.                                              *)
RunAsyncSafely(loop, oc) ==
    IF loop /\ oc.kind = "raise" /\ oc.err.type = "RuntimeError"
    THEN Raised(LoopRunningError)
    ELSE oc

VARIABLES
    fn,                 \* "invoke_mag" | "invoke_sag" | "invoke_sag_async"
    loop_running,       \* the caller is inside a running event loop
    entry_async,        \* the resolved agent entrypoint is a coroutine function
    moderation_enabled, \* MAGSAG_MODERATION_ENABLED is set
    durable_enabled,    \* durable_runner is not None and durable_enabled
    max_attempts,       \* retry_policy["max_attempts"]
    backoff_ms,         \* retry_policy["backoff_ms"]
    slug,               \* the agent slug the call names
    run_id,             \* the run id of the call
    deterministic_mode, \* the process-wide deterministic flag
    context,            \* the per-call context map (the keys the runner reads)
    pc,                 \* position of the invocation
    exec_ctx,           \* exec_ctx is not None: an observer is bound
    attempt,            \* loop variable of `for attempt in range(max_attempts)`
    last_error,         \* last_error of the attempt loop
    pending,            \* the exception being handled or propagated
    output,             \* output of the current attempt
    result,             \* what the invocation returned
    raised,             \* what the invocation raised
    hist                \* observations: calls made on the collaborators

VARIABLES
    b_pc,               \* position of the caller of _run_async_safely
    b_loop,             \* a loop is running in the caller's thread
    b_coro,             \* what the coroutine does when it is run
    b_thread,           \* position of the worker thread
    b_result,           \* result_container
    b_exception,        \* exception_container
    b_out,              \* what _run_async_safely returned or raised
    b_hist              \* observations: runs of the coroutine, sleeps, calls

VARIABLES
    d_flag,             \* the process-wide deterministic flag
    d_inv               \* the overlapping invocations

VARIABLES
    sk_enable_mcp,      \* SkillRuntime.enable_mcp
    sk_registry,        \* SkillRuntime.mcp_registry is not None
    sk_mcp_started,     \* SkillRuntime._mcp_started
    sk_servers,         \* MCPRegistry._servers: server id -> the task whose instance it is
    sk_inst,            \* the MCPServer instance each task created for each server id
    sk_runtimes,        \* _granted_permissions of the MCPRuntime each task created
    sk_task             \* the delegations running on the one runner

VARIABLES
    c_flag,             \* the process-wide deterministic flag
    c_maps,             \* the context maps the callers own
    c_cache,            \* the raw dict of the registry's cached agent descriptor
    c_uuid,             \* how many run ids have been generated
    c_inv               \* the invocations

VARIABLES
    m_lock,             \* MetricsRegistry._lock: the thread holding it, or 0
    m_metrics,          \* MetricsRegistry._metrics
    m_thr               \* the threads calling record() or snapshot()

VARIABLES
    t_granted,          \* MCPRuntime._granted_permissions
    t_policies,         \* the agent policies bound to the current context
    t_observer,         \* MCPRuntime._observer
    t_registry_calls,   \* calls of the registry's execute_tool
    t_logged,           \* records the observer has written
    t_done,             \* calls of MCPRuntime.execute_tool begun
    t_call              \* the call of MCPRuntime.execute_tool under way

VARIABLES
    s_rlock,            \* _GLOBAL_LOCKS: per process, the worker holding the lock of the root
    s_flock,            \* the worker holding the flock on .sessions.lock, or 0
    s_file,             \* <engine>.json in the store's directory
    s_workers           \* the threads calling upsert or list

VARIABLES
    j_lines,            \* the lines of the stream a CLI writes
    j_trailing,         \* whether the last line ends with a newline
    j_input,            \* the part of the stream not yet fed
    j_fed,              \* the number of characters fed so far
    j_pending,          \* JsonStreamParser._pending
    j_out,              \* the objects feed and flush have returned, in order
    j_pc                \* "feeding", or "flushed" after flush

VARIABLES
    r_spec,             \* the RunSpec: engine_mag, engine_sag
    r_observer,         \* whether execute_run was given an observer
    r_pc,               \* where execute_run is
    r_role,             \* the position in role_sequence
    r_results,          \* results
    r_errors,           \* errors
    r_runs,             \* the calls of runner.run made by this execute_run
    r_sessions,         \* the sessions upserted into the session store
    r_logged,           \* observer.log calls of this execute_run
    r_metrics,          \* the global MetricsRegistry
    r_recorded,         \* calls of registry.record
    r_done              \* calls of execute_run that have returned

runner_vars == <<fn, loop_running, entry_async, moderation_enabled, durable_enabled,
                 max_attempts, backoff_ms, slug, run_id, deterministic_mode, context, pc, exec_ctx,
                 attempt, last_error, pending, output, result, raised, hist>>
bridge_vars == <<b_pc, b_loop, b_coro, b_thread, b_result, b_exception, b_out, b_hist>>
det_vars == <<d_flag, d_inv>>
skill_vars == <<sk_enable_mcp, sk_registry, sk_mcp_started, sk_servers, sk_inst,
                sk_runtimes, sk_task>>
call_vars == <<c_flag, c_maps, c_cache, c_uuid, c_inv>>
metric_vars == <<m_lock, m_metrics, m_thr>>
tool_vars == <<t_granted, t_policies, t_observer, t_registry_calls, t_logged, t_done, t_call>>
store_vars == <<s_rlock, s_flock, s_file, s_workers>>
json_vars == <<j_lines, j_trailing, j_input, j_fed, j_pending, j_out, j_pc>>
run_vars == <<r_spec, r_observer, r_pc, r_role, r_results, r_errors, r_runs, r_sessions, r_logged, r_metrics, r_recorded, r_done>>
vars == <<runner_vars, bridge_vars, det_vars, skill_vars, call_vars, metric_vars, tool_vars, store_vars, json_vars, run_vars>>

(* what a step of one specification leaves alone: the other specifications' variables *)
not_runner_vars == <<bridge_vars, det_vars, skill_vars, call_vars, metric_vars, tool_vars, store_vars, json_vars, run_vars>>
not_bridge_vars == <<runner_vars, det_vars, skill_vars, call_vars, metric_vars, tool_vars, store_vars, json_vars, run_vars>>
not_det_vars == <<runner_vars, bridge_vars, skill_vars, call_vars, metric_vars, tool_vars, store_vars, json_vars, run_vars>>
not_skill_vars == <<runner_vars, bridge_vars, det_vars, call_vars, metric_vars, tool_vars, store_vars, json_vars, run_vars>>
not_call_vars == <<runner_vars, bridge_vars, det_vars, skill_vars, metric_vars, tool_vars, store_vars, json_vars, run_vars>>
not_metric_vars == <<runner_vars, bridge_vars, det_vars, skill_vars, call_vars, tool_vars, store_vars, json_vars, run_vars>>
not_tool_vars == <<runner_vars, bridge_vars, det_vars, skill_vars, call_vars, metric_vars, store_vars, json_vars, run_vars>>
not_store_vars == <<runner_vars, bridge_vars, det_vars, skill_vars, call_vars, metric_vars, tool_vars, json_vars, run_vars>>
not_json_vars == <<runner_vars, bridge_vars, det_vars, skill_vars, call_vars, metric_vars, tool_vars, store_vars, run_vars>>
not_run_vars == <<runner_vars, bridge_vars, det_vars, skill_vars, call_vars, metric_vars, tool_vars, store_vars, json_vars>>

(***************************************************************************)
(* One invocation: Spec                                                    *)
(***************************************************************************)
SagFns == {"invoke_sag", "invoke_sag_async"}
NoResult == [status |-> "none", output |-> NoOutput, attempts |-> 0, error |-> "None"]
StoredResult == "stored"
Slugs == {"agent-a", "agent-b"}
GeneratedMagRunId == "mag-uuid"
GeneratedSagRunId == "sag-uuid"
CallerRunIds == {"run-1"}

InitHist ==
    [finalize |-> 0, pre_eval |-> 0, body |-> 0, sleeps |-> <<>>,
     failed |-> [pre_eval |-> 0, execute |-> 0, model_output |-> 0, post_eval |-> 0],
     restores |-> 0, resumes |-> 0, checkpoints |-> <<>>, flag_at_entry |-> FALSE,
     loop_begun |-> FALSE, body_error |-> NoError,
     resume_outcome |-> "unset", resume_events |-> <<>>, blocked_at |-> {}]

InitContexts == [deterministic : BOOLEAN, has_prev : {FALSE}, prev : {FALSE}]

InitRunner ==
    /\ fn \in {"invoke_mag", "invoke_sag", "invoke_sag_async"}
    /\ loop_running \in BOOLEAN
    /\ (fn = "invoke_sag_async" => loop_running)
    /\ entry_async \in BOOLEAN
    /\ moderation_enabled \in BOOLEAN
    /\ durable_enabled \in BOOLEAN
    /\ (fn \in SagFns => ~durable_enabled)
    /\ max_attempts \in 0..MaxAttempts
    /\ backoff_ms \in {0, BackoffMs}
    /\ (fn = "invoke_mag" => max_attempts = 1 /\ backoff_ms = 0)
    /\ slug \in Slugs
    /\ run_id \in IF fn = "invoke_mag" THEN CallerRunIds \cup {GeneratedMagRunId}
                  ELSE {GeneratedSagRunId}
    /\ deterministic_mode \in BOOLEAN
    /\ context \in InitContexts
    /\ pc = "prepare"
    /\ exec_ctx = FALSE
    /\ attempt = 0
    /\ last_error = NoError
    /\ pending = NoError
    /\ output = NoOutput
    /\ result = NoResult
    /\ raised = NoError
    /\ hist = [InitHist EXCEPT !.flag_at_entry = deterministic_mode]

(* magsag.runner_determinism: one process-wide boolean, read and written *)
get_deterministic_mode(flag) == flag
set_deterministic_mode(flag, value) == value

(* _prepare_execution, deterministic branch: the flag and the stash *)
DetEnter(ctx, flag) ==
    IF ctx.deterministic /\ ~get_deterministic_mode(flag)
    THEN set_deterministic_mode(flag, TRUE)
    ELSE flag

(* a variant that stashes nothing *)
DetStashNothing(ctx, flag) == ctx

DetStash(ctx, flag) ==
    IF ctx.deterministic /\ ~get_deterministic_mode(flag)
    THEN [ctx EXCEPT !.has_prev = TRUE, !.prev = get_deterministic_mode(flag)]
    ELSE ctx

(* the inner `except Exception` of the deterministic branch *)
DetSettingsFailed(previous_mode, flag) ==
    IF ~previous_mode THEN set_deterministic_mode(flag, FALSE) ELSE flag

(* a variant that leaves the flag as the call set it *)
RestoreFlagNever(ctx, flag) == flag

(* the `finally` of invoke_mag / invoke_sag / invoke_sag_async *)
RestoreFlag(ctx, flag) ==
    IF ctx.has_prev THEN set_deterministic_mode(flag, ctx.prev) ELSE flag

PrepareOutcomes == {"ok", "unknown_agent", "settings_error", "plan_error"}

Prepare ==
    /\ pc = "prepare"
    /\ \E oc \in PrepareOutcomes :
        /\ (oc = "settings_error" => context.deterministic)
        /\ IF oc = "unknown_agent"
           THEN /\ UNCHANGED <<deterministic_mode, context, exec_ctx, hist>>
                /\ pending' = UnknownAgentError
                /\ pc' = "except"
           ELSE /\ context' = DetStash(context, deterministic_mode)
                /\ hist' = [hist EXCEPT !.restores = @ +
                              (IF oc = "settings_error"
                                  /\ ~get_deterministic_mode(deterministic_mode)
                               THEN 1 ELSE 0)]
                /\ deterministic_mode' =
                       IF oc = "settings_error"
                       THEN DetSettingsFailed(deterministic_mode,
                                              DetEnter(context, deterministic_mode))
                       ELSE DetEnter(context, deterministic_mode)
                /\ exec_ctx' = (oc = "ok")
                /\ pending' = CASE oc = "settings_error" -> SettingsError
                                [] oc = "plan_error" -> PlanError
                                [] OTHER -> NoError
                /\ pc' = IF oc = "ok" THEN "bound" ELSE "except"
    /\ UNCHANGED <<fn, loop_running, entry_async, moderation_enabled, durable_enabled,
                   max_attempts, backoff_ms, slug, run_id, attempt, last_error, output,
                   result, raised>>

fixed_inputs == <<fn, loop_running, entry_async, moderation_enabled, durable_enabled,
                  max_attempts, backoff_ms, slug, run_id>>

(* ---- invoke_sag / invoke_sag_async ---- *)

(* obs.log("start") and the reading of the retry policy, before the loop *)
SagStart ==
    /\ pc = "bound"
    /\ fn \in SagFns
    /\ \E ok \in BOOLEAN :
        IF ok
        THEN /\ attempt' = 0
             /\ last_error' = NoError
             /\ hist' = [hist EXCEPT !.loop_begun = TRUE]
             /\ pc' = "loop"
             /\ UNCHANGED pending
        ELSE /\ pending' = SetupError
             /\ pc' = "except"
             /\ UNCHANGED <<attempt, last_error, hist>>
    /\ UNCHANGED <<fixed_inputs, deterministic_mode, context, exec_ctx, output, result,
                   raised>>

(* for attempt in range(max_attempts) *)
LoopHead ==
    /\ pc = "loop"
    /\ pc' = IF attempt < max_attempts THEN "pre_eval" ELSE "exhausted"
    /\ UNCHANGED <<fixed_inputs, deterministic_mode, context, exec_ctx, attempt,
                   last_error, pending, output, result, raised, hist>>

EvalOutcomes == {"pass", "fail_open", "fail_closed"}

(* _run_pre_evaluations: raises RuntimeError on a fail-closed failure *)
PreEval ==
    /\ pc = "pre_eval"
    /\ \E r \in EvalOutcomes :
        IF r = "fail_closed"
        THEN /\ pending' = PreEvalFailClosed
             /\ hist' = [hist EXCEPT !.pre_eval = @ + 1, !.failed.pre_eval = @ + 1]
             /\ pc' = "retry"
        ELSE /\ hist' = [hist EXCEPT !.pre_eval = @ + 1]
             /\ pc' = "execute"
             /\ UNCHANGED pending
    /\ UNCHANGED <<fixed_inputs, deterministic_mode, context, exec_ctx, attempt,
                   last_error, output, result, raised>>

BodyOutcomes == {Returned(o) : o \in Outputs} \cup {Raised(e) : e \in BodyErrors}
AwaitTypeError == [type |-> "TypeError", msg |-> "object dict can't be used in 'await' expression"]

(* what the attempt loop sees of one execution of the agent:               *)
(* invoke_sag goes through _execute_agent (async check, then the bridge),  *)
(* invoke_sag_async awaits _execute_agent_async directly, where a          *)
(* synchronous entrypoint runs and its return value cannot be awaited.     *)
ExecuteAgent(f, loop, is_async, oc) ==
    IF f = "invoke_sag_async"
    THEN IF is_async \/ oc.kind = "raise" THEN oc ELSE Raised(AwaitTypeError)
    ELSE IF is_async THEN RunAsyncSafely(loop, oc) ELSE Raised(NotAsyncError)

BodyRuns(f, is_async) == IF f = "invoke_sag_async" \/ is_async THEN 1 ELSE 0

SagExecute ==
    /\ pc = "execute"
    /\ fn \in SagFns
    /\ \E oc \in BodyOutcomes :
        LET seen == ExecuteAgent(fn, loop_running, entry_async, oc)
            ran == BodyRuns(fn, entry_async)
        IN  IF seen.kind = "return"
            THEN /\ output' = seen.val
                 /\ hist' = [hist EXCEPT !.body = @ + ran]
                 /\ pc' = "model_check"
                 /\ UNCHANGED pending
            ELSE /\ pending' = seen.err
                 /\ hist' = [hist EXCEPT !.body = @ + ran, !.failed.execute = @ + 1,
                                         !.body_error = IF ran = 1 THEN oc.err ELSE @]
                 /\ pc' = "retry"
                 /\ UNCHANGED output
    /\ UNCHANGED <<fixed_inputs, deterministic_mode, context, exec_ctx, attempt,
                   last_error, result, raised>>

(* a variant in which a blocking verdict is only logged *)
CheckModerationModelOutputLogsOnly(enabled, allowed) == NoError

(* _check_moderation_model_output: a no-op unless moderation is enabled,   *)
(* ValueError when the hook's verdict is not allowed                       *)
CheckModerationModelOutput(enabled, allowed) ==
    IF enabled /\ ~allowed THEN ModelOutputBlocked ELSE NoError

(* the model-output check of an attempt; hist.blocked_at keeps the         *)
(* attempts whose output the hook refused                                  *)
SagModelCheck ==
    /\ pc = "model_check"
    /\ fn \in SagFns
    /\ \E allowed \in BOOLEAN :
        /\ (~moderation_enabled => allowed)
        /\ LET e == CheckModerationModelOutput(moderation_enabled, allowed)
               h == IF allowed THEN hist
                    ELSE [hist EXCEPT !.blocked_at = @ \cup {attempt}]
           IN  IF e = NoError
               THEN /\ pc' = "post_eval"
                    /\ hist' = h
                    /\ UNCHANGED pending
               ELSE /\ pending' = e
                    /\ hist' = [h EXCEPT !.failed.model_output = @ + 1]
                    /\ pc' = "retry"
    /\ UNCHANGED <<fixed_inputs, deterministic_mode, context, exec_ctx, attempt,
                   last_error, output, result, raised>>

(* a variant in which a fail-closed post-evaluation failure ends the loop *)
PostEvalAborts ==
    /\ pc = "post_eval"
    /\ \E r \in EvalOutcomes :
        IF r = "fail_closed"
        THEN /\ last_error' = PostEvalFailClosed
             /\ hist' = [hist EXCEPT !.failed.post_eval = @ + 1]
             /\ pc' = "exhausted"
        ELSE /\ pc' = "success"
             /\ UNCHANGED <<last_error, hist>>
    /\ UNCHANGED <<fixed_inputs, deterministic_mode, context, exec_ctx, attempt,
                   pending, output, result, raised>>

(* _run_post_evaluations: raises RuntimeError on a fail-closed failure *)
PostEval ==
    /\ pc = "post_eval"
    /\ \E r \in EvalOutcomes :
        IF r = "fail_closed"
        THEN /\ pending' = PostEvalFailClosed
             /\ hist' = [hist EXCEPT !.failed.post_eval = @ + 1]
             /\ pc' = "retry"
        ELSE /\ pc' = "success"
             /\ UNCHANGED <<pending, hist>>
    /\ UNCHANGED <<fixed_inputs, deterministic_mode, context, exec_ctx, attempt,
                   last_error, output, result, raised>>

(* a variant that reports the 0-based loop index *)
BuildSuccessMetricsZeroBased(a) == a

(* _build_success_metrics: metrics["attempts"] *)
BuildSuccessMetrics(a) == a + 1

(* the success branch: metrics, obs.log("end"), obs.finalize(), return Result *)
SagSuccess ==
    /\ pc = "success"
    /\ result' = [status |-> "success", output |-> output,
                  attempts |-> BuildSuccessMetrics(attempt), error |-> "None"]
    /\ hist' = [hist EXCEPT !.finalize = @ + 1]
    /\ pc' = "finally"
    /\ UNCHANGED <<fixed_inputs, deterministic_mode, context, exec_ctx, attempt,
                   last_error, pending, output, raised>>

(* a variant that also waits after the final attempt *)
ShouldSleepAlways(a, n, b) == b > 0

(* if attempt < max_attempts - 1 and backoff_ms > 0 *)
ShouldSleep(a, n, b) == a < n - 1 /\ b > 0

(* the argument of time.sleep / asyncio.sleep, in seconds, as a fraction *)
SleepSeconds(b) == [num |-> b, den |-> MS_PER_SECOND]

(* except Exception as e: inside the loop *)
SagRetry ==
    /\ pc = "retry"
    /\ last_error' = pending
    /\ pending' = NoError
    /\ hist' = IF ShouldSleep(attempt, max_attempts, backoff_ms)
               THEN [hist EXCEPT !.sleeps = Append(@, SleepSeconds(backoff_ms))]
               ELSE hist
    /\ attempt' = attempt + 1
    /\ pc' = "loop"
    /\ UNCHANGED <<fixed_inputs, deterministic_mode, context, exec_ctx, output, result,
                   raised>>

(* a variant that reports an exhausted loop as partly done *)
BuildFailureResultPartial(err, n) ==
    [status |-> "partial", output |-> NoOutput, attempts |-> n, error |-> Str(err)]

(* _build_failure_result: the Result of an exhausted loop *)
BuildFailureResult(err, n) ==
    [status |-> "failure", output |-> NoOutput, attempts |-> n, error |-> Str(err)]

(* a variant in which exhaustion re-raises the last error *)
SagExhaustedRaises ==
    /\ pc = "exhausted"
    /\ pending' = last_error
    /\ pc' = "except"
    /\ UNCHANGED <<fixed_inputs, deterministic_mode, context, exec_ctx, attempt,
                   last_error, output, result, raised, hist>>

SagExhausted ==
    /\ pc = "exhausted"
    /\ result' = BuildFailureResult(last_error, max_attempts)
    /\ hist' = [hist EXCEPT !.finalize = @ + 1]
    /\ pc' = "finally"
    /\ UNCHANGED <<fixed_inputs, deterministic_mode, context, exec_ctx, attempt,
                   last_error, pending, output, raised>>

(* a variant whose error handler forgets the observer *)
FinalizeOnErrorNever(bound) == 0

(* the outer `except Exception`: finalize the observer if one is bound *)
FinalizeOnError(bound) == IF bound THEN 1 ELSE 0

SagExcept ==
    /\ pc = "except"
    /\ fn \in SagFns
    /\ hist' = [hist EXCEPT !.finalize = @ + FinalizeOnError(exec_ctx)]
    /\ pc' = "finally"
    /\ UNCHANGED <<fixed_inputs, deterministic_mode, context, exec_ctx, attempt,
                   last_error, pending, output, result, raised>>

(* finally: restore the deterministic flag, then return or re-raise *)
Finally ==
    /\ pc = "finally"
    /\ deterministic_mode' = RestoreFlag(context, deterministic_mode)
    /\ hist' = [hist EXCEPT !.restores = @ + (IF context.has_prev THEN 1 ELSE 0)]
    /\ IF pending = NoError
       THEN /\ pc' = "returned"
            /\ UNCHANGED raised
       ELSE /\ pc' = "raised"
            /\ raised' = pending
    /\ UNCHANGED <<fixed_inputs, context, exec_ctx, attempt, last_error, pending, output,
                   result>>

(* ---- invoke_mag ---- *)
ResumeOutcomes == {"none", "result", "no_result", "raise"}

DurableIOError == [type |-> "OSError", msg |-> "durable I/O failed"]

(* a variant in which a failure of the durable collaborator propagates *)
PropagateDurableError(e) == e

(* `except Exception as exc: logger.warning(...)` around resume/checkpoint *)
SwallowDurableError(e) == NoError

(* a variant that never recognises a stored result *)
HasStoredResultNever(r) == FALSE

(* isinstance(resumed_state, dict) and "result" in resumed_state *)
HasStoredResult(r) == r = "result"

(* the payload of obs.log("resume", ...) *)
ResumeEvent(rid, s) == [status |-> "resumed", run_id |-> rid, agent_slug |-> s]

(* durable resume: a state holding "result" short-circuits the call *)
MagResume ==
    /\ pc = "bound"
    /\ fn = "invoke_mag"
    /\ IF durable_enabled
       THEN \E r \in ResumeOutcomes :
              LET e == IF r = "raise" THEN SwallowDurableError(DurableIOError)
                       ELSE NoError
                  h == [hist EXCEPT !.resumes = @ + 1, !.resume_outcome = r]
              IN  IF e # NoError
                  THEN /\ pending' = e
                       /\ hist' = h
                       /\ pc' = "except"
                       /\ UNCHANGED result
                  ELSE IF HasStoredResult(r)
                  THEN /\ result' = [status |-> "output", output |-> StoredResult,
                                     attempts |-> 0, error |-> "None"]
                       /\ hist' = [h EXCEPT !.finalize = @ + 1,
                                    !.resume_events = Append(@, ResumeEvent(run_id, slug))]
                       /\ pc' = "finally"
                       /\ UNCHANGED pending
                  ELSE /\ hist' = h
                       /\ pc' = "ingress"
                       /\ UNCHANGED <<result, pending>>
       ELSE /\ pc' = "ingress"
            /\ UNCHANGED <<result, hist, pending>>
    /\ UNCHANGED <<fixed_inputs, deterministic_mode, context, exec_ctx, attempt,
                   last_error, output, raised>>

(* obs.log("start") and _check_moderation_ingress *)
MagIngress ==
    /\ pc = "ingress"
    /\ \E allowed \in BOOLEAN :
        /\ (~moderation_enabled => allowed)
        /\ IF allowed
           THEN /\ pc' = "execute"
                /\ UNCHANGED pending
           ELSE /\ pending' = IngressBlocked
                /\ pc' = "except"
    /\ UNCHANGED <<fixed_inputs, deterministic_mode, context, exec_ctx, attempt,
                   last_error, output, result, raised, hist>>

(* _execute_mag: async check, then the body through the bridge *)
ExecuteMag(loop, is_async, oc) ==
    IF is_async THEN RunAsyncSafely(loop, oc) ELSE Raised(NotAsyncError)

MagExecute ==
    /\ pc = "execute"
    /\ fn = "invoke_mag"
    /\ \E oc \in BodyOutcomes :
        LET seen == ExecuteMag(loop_running, entry_async, oc)
            ran == BodyRuns(fn, entry_async)
        IN  IF seen.kind = "return"
            THEN /\ output' = seen.val
                 /\ hist' = [hist EXCEPT !.body = @ + ran]
                 /\ pc' = "model_check"
                 /\ UNCHANGED pending
            ELSE /\ pending' = seen.err
                 /\ hist' = [hist EXCEPT !.body = @ + ran, !.failed.execute = @ + 1,
                                         !.body_error = IF ran = 1 THEN oc.err ELSE @]
                 /\ pc' = "except"
                 /\ UNCHANGED output
    /\ UNCHANGED <<fixed_inputs, deterministic_mode, context, exec_ctx, attempt,
                   last_error, result, raised>>

MagCheckOutcomes == {"allowed", "model_output_blocked", "egress_blocked"}

(* _check_moderation_model_output and _check_moderation_egress *)
MagModeration ==
    /\ pc = "model_check"
    /\ fn = "invoke_mag"
    /\ \E r \in MagCheckOutcomes :
        /\ (~moderation_enabled => r = "allowed")
        /\ IF r = "allowed"
           THEN /\ pc' = "mag_success"
                /\ UNCHANGED pending
           ELSE /\ pending' = IF r = "egress_blocked" THEN EgressBlocked
                              ELSE ModelOutputBlocked
                /\ pc' = "except"
    /\ UNCHANGED <<fixed_inputs, deterministic_mode, context, exec_ctx, attempt,
                   last_error, output, result, raised, hist>>

(* _finalize_mag_success: metric, cost, obs.log("end"), obs.finalize() *)
MagFinalizeSuccess ==
    /\ pc = "mag_success"
    /\ hist' = [hist EXCEPT !.finalize = @ + 1]
    /\ pc' = "checkpoint"
    /\ UNCHANGED <<fixed_inputs, deterministic_mode, context, exec_ctx, attempt,
                   last_error, pending, output, result, raised>>

(* a variant that files the checkpoint under a generated run id *)
CheckpointCallUnkeyed(rid, s, out, ok) ==
    [run_id |-> GeneratedMagRunId, step_id |-> "final", state |-> out,
     agent_slug |-> s, type |-> "mag", ok |-> ok]

(* the arguments of durable_runner.checkpoint(...) and whether it succeeded *)
CheckpointCall(rid, s, out, ok) ==
    [run_id |-> rid, step_id |-> "final", state |-> out,
     agent_slug |-> s, type |-> "mag", ok |-> ok]

(* the durable checkpoint under step id "final" (failures are swallowed),  *)
(* then `return output`                                                    *)
MagCheckpoint ==
    /\ pc = "checkpoint"
    /\ IF durable_enabled
       THEN \E ok \in BOOLEAN :
              LET e == IF ok THEN NoError ELSE SwallowDurableError(DurableIOError)
              IN  /\ hist' = [hist EXCEPT !.checkpoints =
                                  Append(@, CheckpointCall(run_id, slug, output, ok))]
                  /\ IF e # NoError
                     THEN /\ pending' = e
                          /\ pc' = "except"
                          /\ UNCHANGED result
                     ELSE /\ result' = [status |-> "output", output |-> output,
                                        attempts |-> 0, error |-> "None"]
                          /\ pc' = "finally"
                          /\ UNCHANGED pending
       ELSE /\ UNCHANGED <<hist, pending>>
            /\ result' = [status |-> "output", output |-> output, attempts |-> 0,
                          error |-> "None"]
            /\ pc' = "finally"
    /\ UNCHANGED <<fixed_inputs, deterministic_mode, context, exec_ctx, attempt,
                   last_error, output, raised>>

(* except Exception as e: _handle_mag_error(exec_ctx, e); raise *)
MagExcept ==
    /\ pc = "except"
    /\ fn = "invoke_mag"
    /\ hist' = [hist EXCEPT !.finalize = @ + FinalizeOnError(exec_ctx)]
    /\ pc' = "finally"
    /\ UNCHANGED <<fixed_inputs, deterministic_mode, context, exec_ctx, attempt,
                   last_error, pending, output, result, raised>>

(* ---- the variables of the other specifications, at rest ---- *)
BridgeIdle ==
    /\ b_pc = "off"
    /\ b_loop = FALSE
    /\ b_coro = NoOutcome
    /\ b_thread = "none"
    /\ b_result = NoOutput
    /\ b_exception = NoError
    /\ b_out = NoOutcome
    /\ b_hist = [runs |-> 0, sleeps |-> 0, calls |-> 0]

DetIdle ==
    /\ d_flag = FALSE
    /\ d_inv = <<>>

SkillIdle ==
    /\ sk_enable_mcp = FALSE
    /\ sk_registry = FALSE
    /\ sk_mcp_started = FALSE
    /\ sk_servers = <<>>
    /\ sk_inst = <<>>
    /\ sk_runtimes = <<>>
    /\ sk_task = <<>>

CallsIdle ==
    /\ c_flag = FALSE
    /\ c_maps = <<>>
    /\ c_cache = [provider_config |-> "base"]
    /\ c_uuid = 0
    /\ c_inv = <<>>

MetricsIdle ==
    /\ m_lock = 0
    /\ m_metrics = [runs_total |-> 0, runs_failed |-> 0, turns_total |-> 0]
    /\ m_thr = <<>>

ToolIdle ==
    /\ t_granted = {}
    /\ t_policies = <<>>
    /\ t_observer = "none"
    /\ t_registry_calls = 0
    /\ t_logged = 0
    /\ t_done = 0
    /\ t_call = <<>>

StoreIdle ==
    /\ s_rlock = <<>>
    /\ s_flock = 0
    /\ s_file = <<>>
    /\ s_workers = <<>>

JsonIdle ==
    /\ j_lines = <<>>
    /\ j_trailing = FALSE
    /\ j_input = <<>>
    /\ j_fed = 0
    /\ j_pending = <<>>
    /\ j_out = <<>>
    /\ j_pc = "off"

RunIdle ==
    /\ r_spec = <<>>
    /\ r_observer = FALSE
    /\ r_pc = "off"
    /\ r_role = 0
    /\ r_results = <<>>
    /\ r_errors = <<>>
    /\ r_runs = <<>>
    /\ r_sessions = {}
    /\ r_logged = 0
    /\ r_metrics = <<>>
    /\ r_recorded = 0
    /\ r_done = 0

Init ==
    /\ InitRunner
    /\ BridgeIdle
    /\ DetIdle
    /\ SkillIdle
    /\ CallsIdle
    /\ MetricsIdle
    /\ ToolIdle
    /\ StoreIdle
    /\ JsonIdle
    /\ RunIdle

Next ==
    \/ (Prepare /\ UNCHANGED not_runner_vars)
    \/ (SagStart /\ UNCHANGED not_runner_vars)
    \/ (LoopHead /\ UNCHANGED not_runner_vars)
    \/ (PreEval /\ UNCHANGED not_runner_vars)
    \/ (SagExecute /\ UNCHANGED not_runner_vars)
    \/ (SagModelCheck /\ UNCHANGED not_runner_vars)
    \/ (PostEval /\ UNCHANGED not_runner_vars)
    \/ (SagSuccess /\ UNCHANGED not_runner_vars)
    \/ (SagRetry /\ UNCHANGED not_runner_vars)
    \/ (SagExhausted /\ UNCHANGED not_runner_vars)
    \/ (SagExcept /\ UNCHANGED not_runner_vars)
    \/ (MagResume /\ UNCHANGED not_runner_vars)
    \/ (MagIngress /\ UNCHANGED not_runner_vars)
    \/ (MagExecute /\ UNCHANGED not_runner_vars)
    \/ (MagModeration /\ UNCHANGED not_runner_vars)
    \/ (MagFinalizeSuccess /\ UNCHANGED not_runner_vars)
    \/ (MagCheckpoint /\ UNCHANGED not_runner_vars)
    \/ (MagExcept /\ UNCHANGED not_runner_vars)
    \/ (Finally /\ UNCHANGED not_runner_vars)

Spec == Init /\ [][Next]_vars

(***************************************************************************)
(* The bridge, step by step: SpecBridge                                    *)
(***************************************************************************)
RunnerIdle ==
    /\ fn = "none"
    /\ loop_running = FALSE
    /\ entry_async = TRUE
    /\ moderation_enabled = FALSE
    /\ durable_enabled = FALSE
    /\ max_attempts = 1
    /\ backoff_ms = 0
    /\ slug = "none"
    /\ run_id = "none"
    /\ deterministic_mode = FALSE
    /\ context = [deterministic |-> FALSE, has_prev |-> FALSE, prev |-> FALSE]
    /\ pc = "off"
    /\ exec_ctx = FALSE
    /\ attempt = 0
    /\ last_error = NoError
    /\ pending = NoError
    /\ output = NoOutput
    /\ result = NoResult
    /\ raised = NoError
    /\ hist = InitHist

InitBridgeHist == [runs |-> 0, sleeps |-> 0, calls |-> 0]

InitBridge ==
    /\ b_pc = "idle"
    /\ b_loop = FALSE
    /\ b_coro = NoOutcome
    /\ b_thread = "none"
    /\ b_result = NoOutput
    /\ b_exception = NoError
    /\ b_out = NoOutcome
    /\ b_hist = InitBridgeHist

(* a caller enters _run_async_safely(coro) *)
BridgeCall ==
    /\ b_pc \in {"idle", "done"}
    /\ b_hist.calls < MaxBridgeCalls
    /\ b_loop' \in BOOLEAN
    /\ b_coro' \in BodyOutcomes
    /\ b_thread' = "none"
    /\ b_result' = NoOutput
    /\ b_exception' = NoError
    /\ b_out' = NoOutcome
    /\ b_hist' = [runs |-> 0, sleeps |-> 0, calls |-> b_hist.calls + 1]
    /\ b_pc' = "detect"

(* asyncio.get_running_loop(): raises RuntimeError when no loop is running, *)
(* which the `except RuntimeError` of the same try handles                 *)
BridgeDetect ==
    /\ b_pc = "detect"
    /\ b_pc' = IF b_loop THEN "spawn" ELSE "fallback"
    /\ UNCHANGED <<b_loop, b_coro, b_thread, b_result, b_exception, b_out, b_hist>>

(* thread = threading.Thread(target=run_in_new_loop); thread.start() *)
BridgeSpawn ==
    /\ b_pc = "spawn"
    /\ b_thread' = "run"
    /\ b_pc' = "join"
    /\ UNCHANGED <<b_loop, b_coro, b_result, b_exception, b_out, b_hist>>

(* run_in_new_loop: asyncio.run(coro) on the worker's private loop *)
WorkerRun ==
    /\ b_thread = "run"
    /\ IF b_coro.kind = "return"
       THEN /\ b_result' = b_coro.val
            /\ UNCHANGED b_exception
       ELSE /\ b_exception' = b_coro.err
            /\ UNCHANGED b_result
    /\ b_hist' = [b_hist EXCEPT !.runs = @ + 1]
    /\ b_thread' = "sleep"
    /\ UNCHANGED <<b_pc, b_loop, b_coro, b_out>>

(* run_in_new_loop: finally: time.sleep(0.5) *)
WorkerSleep ==
    /\ b_thread = "sleep"
    /\ b_hist' = [b_hist EXCEPT !.sleeps = @ + BRIDGE_DELAY_MS]
    /\ b_thread' = "dead"
    /\ UNCHANGED <<b_pc, b_loop, b_coro, b_result, b_exception, b_out>>

(* the handler that catches what is raised after thread.join() *)
CaughtByHandler(e) == e.type = "RuntimeError"

(* thread.join(); raise exception_container["error"] inside the try, or    *)
(* return result_container["value"]                                        *)
BridgeJoin ==
    /\ b_pc = "join"
    /\ b_thread = "dead"
    /\ IF b_exception # NoError
       THEN IF CaughtByHandler(b_exception)
            THEN /\ b_pc' = "fallback"
                 /\ UNCHANGED b_out
            ELSE /\ b_out' = Raised(b_exception)
                 /\ b_pc' = "done"
       ELSE /\ b_out' = Returned(b_result)
            /\ b_pc' = "done"
    /\ UNCHANGED <<b_loop, b_coro, b_thread, b_result, b_exception, b_hist>>

(* except RuntimeError: asyncio.run(coro), which refuses to start under a  *)
(* running loop and otherwise runs the coroutine; finally: time.sleep(0.5) *)
BridgeFallback ==
    /\ b_pc = "fallback"
    /\ IF b_loop
       THEN /\ b_out' = Raised(LoopRunningError)
            /\ b_hist' = [b_hist EXCEPT !.sleeps = @ + BRIDGE_DELAY_MS]
       ELSE /\ b_out' = b_coro
            /\ b_hist' = [b_hist EXCEPT !.runs = @ + 1, !.sleeps = @ + BRIDGE_DELAY_MS]
    /\ b_pc' = "done"
    /\ UNCHANGED <<b_loop, b_coro, b_thread, b_result, b_exception>>

InitB ==
    /\ RunnerIdle
    /\ InitBridge
    /\ DetIdle
    /\ SkillIdle
    /\ CallsIdle
    /\ MetricsIdle
    /\ ToolIdle
    /\ StoreIdle
    /\ JsonIdle
    /\ RunIdle

NextB ==
    \/ (BridgeCall /\ UNCHANGED not_bridge_vars)
    \/ (BridgeDetect /\ UNCHANGED not_bridge_vars)
    \/ (BridgeSpawn /\ UNCHANGED not_bridge_vars)
    \/ (WorkerRun /\ UNCHANGED not_bridge_vars)
    \/ (WorkerSleep /\ UNCHANGED not_bridge_vars)
    \/ (BridgeJoin /\ UNCHANGED not_bridge_vars)
    \/ (BridgeFallback /\ UNCHANGED not_bridge_vars)

SpecBridge == InitB /\ [][NextB]_vars

(***************************************************************************)
(* Overlapping invocations sharing the deterministic flag: SpecDet         *)
(***************************************************************************)
Invocations == 1..NumInvocations

InitDet ==
    /\ d_flag \in BOOLEAN
    /\ d_inv = [i \in Invocations |->
                  [pc |-> "idle", deterministic |-> FALSE, previous_mode |-> FALSE,
                   has_prev |-> FALSE, prev |-> FALSE]]

(* an invocation begins with its own context map *)
DetBegin(i) ==
    /\ d_inv[i].pc = "idle"
    /\ \E d \in BOOLEAN :
         d_inv' = [d_inv EXCEPT ![i].deterministic = d, ![i].pc = "prepare"]
    /\ UNCHANGED d_flag

(* _prepare_execution: previous_mode = get_deterministic_mode() *)
DetReadMode(i) ==
    /\ d_inv[i].pc = "prepare"
    /\ IF d_inv[i].deterministic
       THEN d_inv' = [d_inv EXCEPT ![i].previous_mode = get_deterministic_mode(d_flag),
                                 ![i].pc = "set"]
       ELSE d_inv' = [d_inv EXCEPT ![i].pc = "running"]
    /\ UNCHANGED d_flag

(* _prepare_execution: if not previous_mode: set the flag and stash *)
DetSetMode(i) ==
    /\ d_inv[i].pc = "set"
    /\ IF ~d_inv[i].previous_mode
       THEN /\ d_flag' = set_deterministic_mode(d_flag, TRUE)
            /\ d_inv' = [d_inv EXCEPT ![i].has_prev = TRUE,
                                      ![i].prev = d_inv[i].previous_mode,
                                      ![i].pc = "running"]
       ELSE /\ d_inv' = [d_inv EXCEPT ![i].pc = "running"]
            /\ UNCHANGED d_flag

(* the attempts or the body of the invocation end, in a result or an error *)
DetFinish(i) ==
    /\ d_inv[i].pc = "running"
    /\ d_inv' = [d_inv EXCEPT ![i].pc = "finally"]
    /\ UNCHANGED d_flag

(* finally: set_deterministic_mode(context["_previous_deterministic_mode"]) *)
DetRestore(i) ==
    /\ d_inv[i].pc = "finally"
    /\ d_flag' = RestoreFlag(d_inv[i], d_flag)
    /\ d_inv' = [d_inv EXCEPT ![i].pc = "done"]

InitD ==
    /\ RunnerIdle
    /\ BridgeIdle
    /\ InitDet
    /\ SkillIdle
    /\ CallsIdle
    /\ MetricsIdle
    /\ ToolIdle
    /\ StoreIdle
    /\ JsonIdle
    /\ RunIdle

NextD ==
    \/ \E i \in Invocations : DetBegin(i) /\ UNCHANGED not_det_vars
    \/ \E i \in Invocations : DetReadMode(i) /\ UNCHANGED not_det_vars
    \/ \E i \in Invocations : DetSetMode(i) /\ UNCHANGED not_det_vars
    \/ \E i \in Invocations : DetFinish(i) /\ UNCHANGED not_det_vars
    \/ \E i \in Invocations : DetRestore(i) /\ UNCHANGED not_det_vars

SpecDet == InitD /\ [][NextD]_vars

(***************************************************************************)
(* Delegations sharing one SkillRuntime: SpecSkill                         *)
(*                                                                         *)
(* Each task is a delegation whose agent body invokes one skill on the     *)
(* runner's SkillRuntime.  Tasks are coroutines of one event loop: a step  *)
(* runs from one suspension point (`await` of server.start(), of           *)
(* server.stop(), of a tool call, of the body) to the next.                *)
(***************************************************************************)
Tasks == 1..NumTasks

(* the ids of self._configs, in discovery order: one server is configured *)
ConfiguredServers == <<"server1">>
ServerIds == {ConfiguredServers[i] : i \in DOMAIN ConfiguredServers}

(* permissions are strings "<scheme>:<name>" *)
McpPermA == [scheme |-> "mcp", name |-> "server1"]
McpPermB == [scheme |-> "mcp", name |-> "server2"]
FsPerm == [scheme |-> "fs", name |-> "read"]
Permissions == {McpPermA, McpPermB, FsPerm}

(* perm.startswith("mcp:") *)
StartsWithMcp(perm) == perm.scheme = "mcp"

SkillIds == {"needs_a", "needs_b", "optional", "plain", "sync", "sync_plain"}

(* the skill descriptor and what inspection of its entrypoint finds *)
SkillDesc(id) ==
    CASE id = "needs_a" ->
           [has_mcp_param |-> TRUE, permissions |-> {McpPermA, FsPerm}, is_async |-> TRUE]
      [] id = "needs_b" ->
           [has_mcp_param |-> TRUE, permissions |-> {McpPermB}, is_async |-> TRUE]
      [] id = "optional" ->
           [has_mcp_param |-> TRUE, permissions |-> {FsPerm}, is_async |-> TRUE]
      [] id = "plain" ->
           [has_mcp_param |-> FALSE, permissions |-> {McpPermA}, is_async |-> TRUE]
      [] id = "sync" ->
           [has_mcp_param |-> TRUE, permissions |-> {McpPermA}, is_async |-> FALSE]
      [] OTHER ->
           [has_mcp_param |-> FALSE, permissions |-> {FsPerm}, is_async |-> FALSE]

NoCall == [enabled |-> FALSE, started |-> FALSE, registry |-> FALSE, runtime |-> 0]
NoInst == [owner |-> 0, sid |-> "none"]

InitTask(in) ==
    [skill |-> in.skill, auto_cleanup |-> in.auto_cleanup,
     delegation |-> in.delegation, pc |-> "idle",
     mcp_started_here |-> FALSE, mcp_runtime |-> 0, todo |-> <<>>, cur |-> NoInst,
     outcome |-> "none", called |-> FALSE, called_with |-> NoCall, using |-> {},
     expected |-> {}, lost |-> FALSE, changed |-> FALSE]

(* how a skill is invoked: invoke_async(skill_id, payload) by the agent    *)
(* body of a delegation, or SkillRuntime.invoke on its own, which passes   *)
(* _auto_cleanup=True and is followed by no runner cleanup                 *)
TaskInputs ==
    << [skill |-> "needs_a", auto_cleanup |-> FALSE, delegation |-> TRUE],
       [skill |-> "needs_b", auto_cleanup |-> FALSE, delegation |-> TRUE],
       [skill |-> "optional", auto_cleanup |-> FALSE, delegation |-> TRUE],
       [skill |-> "plain", auto_cleanup |-> FALSE, delegation |-> TRUE],
       [skill |-> "sync", auto_cleanup |-> FALSE, delegation |-> TRUE],
       [skill |-> "sync_plain", auto_cleanup |-> FALSE, delegation |-> TRUE],
       [skill |-> "needs_a", auto_cleanup |-> TRUE, delegation |-> FALSE] >>

(* tasks are interchangeable: their inputs are taken in list order *)
InitSkill ==
    /\ sk_enable_mcp \in BOOLEAN
    /\ sk_registry = FALSE
    /\ sk_mcp_started = FALSE
    /\ sk_servers = [sid \in ServerIds |-> 0]
    /\ sk_inst = [t \in Tasks |-> [sid \in ServerIds |-> "none"]]
    /\ sk_runtimes = [t \in Tasks |-> {}]
    /\ \E choice \in [Tasks -> 1..Len(TaskInputs)] :
        /\ \A t \in Tasks : t < NumTasks => choice[t] <= choice[t + 1]
        /\ sk_task = [t \in Tasks |-> InitTask(TaskInputs[choice[t]])]

(* the shared objects as task t sees them, and the task itself *)
World(t) ==
    [self |-> t, enable |-> sk_enable_mcp, registry |-> sk_registry,
     started |-> sk_mcp_started, servers |-> sk_servers, inst |-> sk_inst,
     runtimes |-> sk_runtimes, tk |-> sk_task[t]]

Commit(t, w) ==
    /\ sk_registry' = w.registry
    /\ sk_mcp_started' = w.started
    /\ sk_servers' = w.servers
    /\ sk_inst' = w.inst
    /\ sk_runtimes' = w.runtimes
    /\ sk_task' = [sk_task EXCEPT ![t] = w.tk]
    /\ UNCHANGED sk_enable_mcp

(* MCPServer.is_started: _started is cleared at the end of stop() *)
IsStarted(state) == state \in {"running", "stopping"}

(* the registered instance of a server id *)
Registered(w, sid) == w.inst[w.servers[sid]][sid]

(* the servers a tool call can reach *)
RunningServers(w) ==
    {sid \in ServerIds : w.servers[sid] # 0 /\ Registered(w, sid) = "running"}

(* invoke_async is left: its locals, the runtime among them, are dropped *)
DropLocals(w) ==
    [w EXCEPT !.runtimes[w.self] = {},
              !.tk.using = {}, !.tk.mcp_started_here = FALSE, !.tk.mcp_runtime = 0,
              !.tk.expected = {}, !.tk.changed = FALSE, !.tk.called_with = NoCall]

(* the call, and the delegation around it, is over *)
TaskDone(w) == [w EXCEPT !.tk.pc = "done", !.tk.cur = NoInst, !.tk.todo = <<>>]

(* MCPRegistry.stop_all_servers from its current position: stop_server     *)
(* skips ids no longer registered, returns at once from a server that is   *)
(* not started, and otherwise suspends in server.stop(); at the end        *)
(* _cleanup_mcp clears _mcp_started.  What follows a cleanup finds the     *)
(* flag cleared, so _cleanup_mcp_async has nothing left to do.             *)
RECURSIVE ContinueStopAll(_)
ContinueStopAll(w) ==
    IF w.tk.todo = <<>>
    THEN TaskDone([w EXCEPT !.started = FALSE])
    ELSE LET sid == Head(w.tk.todo)
             rest == Tail(w.tk.todo)
         IN  IF w.servers[sid] = 0
             THEN ContinueStopAll([w EXCEPT !.tk.todo = rest])
             ELSE IF ~IsStarted(Registered(w, sid))
             THEN ContinueStopAll([w EXCEPT !.servers[sid] = 0, !.tk.todo = rest])
             ELSE [w EXCEPT !.inst[w.servers[sid]][sid] = "stopping",
                            !.tk.cur = [owner |-> w.servers[sid], sid |-> sid],
                            !.tk.todo = rest,
                            !.tk.pc = "await_stop"]

(* list(self._servers.keys()) *)
RECURSIVE RegisteredFrom(_, _)
RegisteredFrom(servers, i) ==
    IF i > Len(ConfiguredServers) THEN <<>>
    ELSE IF servers[ConfiguredServers[i]] # 0
    THEN <<ConfiguredServers[i]>> \o RegisteredFrom(servers, i + 1)
    ELSE RegisteredFrom(servers, i + 1)

(* SkillRuntime._cleanup_mcp *)
CleanupMcp(w) ==
    IF w.registry /\ w.started
    THEN ContinueStopAll([w EXCEPT !.tk.todo = RegisteredFrom(w.servers, 1)])
    ELSE TaskDone(w)

(* AgentRunner._cleanup_mcp_async, the `finally` of _execute_agent_async; *)
(* SkillRuntime.invoke on its own has no runner around it                  *)
CleanupMcpAsync(w) ==
    IF w.tk.delegation /\ w.enable /\ w.started THEN CleanupMcp(w) ELSE TaskDone(w)

(* the `finally` of invoke_async, then the end of the agent body *)
SkillFinally(w) ==
    IF w.tk.auto_cleanup /\ w.tk.mcp_started_here /\ w.started
    THEN CleanupMcp(DropLocals(w))
    ELSE CleanupMcpAsync(DropLocals(w))

(* invoke_async raises before its try block *)
RaiseBeforeBody(w) == CleanupMcpAsync(DropLocals([w EXCEPT !.tk.outcome = "raised"]))

(* a variant that takes every entrypoint for a coroutine function *)
IsAsyncCallableAlways(desc) == TRUE

(* _is_async_callable(callable_fn), as found by inspection *)
IsAsyncCallable(desc) == desc.is_async

(* the try block of invoke_async up to the call of the skill body *)
CallBody(w, desc) ==
    IF ~IsAsyncCallable(desc)
    THEN SkillFinally([w EXCEPT !.tk.outcome = "raised"])
    ELSE [w EXCEPT !.tk.pc = "body",
                   !.tk.called = TRUE,
                   !.tk.called_with = [enabled |-> w.enable, started |-> w.started,
                                       registry |-> w.registry,
                                       runtime |-> w.tk.mcp_runtime],
                   !.tk.using = IF w.tk.mcp_runtime # 0 THEN RunningServers(w) ELSE {},
                   !.tk.expected = IF w.tk.mcp_runtime # 0
                                   THEN {perm \in desc.permissions : perm.scheme = "mcp"}
                                   ELSE {}]

(* MCPRuntime.grant_permissions / revoke_permissions on instance i *)
grant_permissions(runtimes, i, permissions) ==
    [runtimes EXCEPT ![i] = @ \cup permissions]

revoke_permissions(runtimes, i, permissions) ==
    [runtimes EXCEPT ![i] = @ \ permissions]

(* a variant that hands out one runtime to every caller *)
MCPRuntimeShared(t) == 1

(* MCPRuntime(self.mcp_registry): a new instance, with no permission; each *)
(* invocation creates at most one, named after the task                    *)
MCPRuntimeNew(t) == t

(* SkillRuntime._create_mcp_runtime *)
CreateMcpRuntime(w, desc) ==
    LET mcp_permissions == {perm \in desc.permissions : StartsWithMcp(perm)}
        i == MCPRuntimeNew(w.self)
    IN  IF ~w.enable \/ ~w.registry \/ mcp_permissions = {}
        THEN [w EXCEPT !.tk.mcp_runtime = 0]
        ELSE [w EXCEPT !.runtimes = grant_permissions(@, i, mcp_permissions),
                       !.tk.mcp_runtime = i]

(* a variant that treats every runtime parameter as optional *)
RequiresMcpNever(desc) == FALSE

(* has_mcp_param and any(perm.startswith("mcp:") ...) *)
RequiresMcp(desc) ==
    desc.has_mcp_param /\ \E perm \in desc.permissions : StartsWithMcp(perm)

(* a variant that demands a started registry of every skill taking the     *)
(* runtime parameter                                                       *)
AfterEnsureStrict(w, desc) ==
    IF ~w.started \/ ~w.registry
    THEN RaiseBeforeBody(w)
    ELSE LET w2 == CreateMcpRuntime(w, desc)
         IN  IF RequiresMcp(desc) /\ w2.tk.mcp_runtime = 0 THEN RaiseBeforeBody(w2)
             ELSE CallBody(w2, desc)

(* invoke_async after `await self._ensure_mcp_started()` has returned *)
AfterEnsure(w, desc) ==
    IF RequiresMcp(desc)
    THEN IF ~w.started \/ ~w.registry
         THEN RaiseBeforeBody(w)
         ELSE LET w2 == CreateMcpRuntime(w, desc)
              IN  IF w2.tk.mcp_runtime = 0 THEN RaiseBeforeBody(w2)
                  ELSE CallBody(w2, desc)
    ELSE IF w.started /\ w.registry
         THEN CallBody(CreateMcpRuntime(w, desc), desc)
         ELSE CallBody(w, desc)

(* MCPRegistry.start_all_servers from its current position: start_server   *)
(* returns at once for a registered, started server and otherwise creates  *)
(* an MCPServer and suspends in server.start(); after the loop             *)
(* _ensure_mcp_started sets _mcp_started.                                  *)
RECURSIVE ContinueStartAll(_, _)
ContinueStartAll(w, desc) ==
    IF w.tk.todo = <<>>
    THEN AfterEnsure([w EXCEPT !.started = TRUE], desc)
    ELSE LET sid == Head(w.tk.todo)
             rest == Tail(w.tk.todo)
         IN  IF w.servers[sid] # 0 /\ IsStarted(Registered(w, sid))
             THEN ContinueStartAll([w EXCEPT !.tk.todo = rest], desc)
             ELSE [w EXCEPT !.inst[w.self][sid] = "starting",
                            !.tk.cur = [owner |-> w.self, sid |-> sid],
                            !.tk.todo = rest,
                            !.tk.pc = "await_start"]

(* SkillRuntime._ensure_mcp_started; discovered tells whether a first      *)
(* MCPRegistry() and discover_servers() succeed                            *)
EnsureMcpStarted(w, desc, discovered) ==
    IF ~w.enable \/ w.started
    THEN AfterEnsure(w, desc)
    ELSE IF w.registry
    THEN ContinueStartAll([w EXCEPT !.tk.todo = ConfiguredServers], desc)
    ELSE IF discovered
    THEN ContinueStartAll([w EXCEPT !.registry = TRUE,
                                    !.tk.todo = ConfiguredServers], desc)
    ELSE AfterEnsure([w EXCEPT !.registry = FALSE], desc)

(* SkillRuntime.invoke_async from its start to its first suspension *)
InvokeAsync(t) ==
    /\ sk_task[t].pc = "idle"
    /\ \E discovered \in BOOLEAN :
        LET w == World(t)
            desc == SkillDesc(w.tk.skill)
            here == [w EXCEPT !.tk.mcp_started_here = ~w.started]
        IN  Commit(t,
              IF ~desc.has_mcp_param THEN CallBody(w, desc)
              ELSE IF RequiresMcp(desc)
              THEN IF ~w.enable THEN RaiseBeforeBody(w)
                   ELSE EnsureMcpStarted(here, desc, discovered)
              ELSE IF w.enable THEN EnsureMcpStarted(here, desc, discovered)
                   ELSE CallBody(w, desc))

(* server.start() completes or fails; start_server registers the instance  *)
(* on success, start_all_servers logs a failure and goes on                *)
ServerStarted(t) ==
    /\ sk_task[t].pc = "await_start"
    /\ \E ok \in BOOLEAN :
        LET w == World(t)
            i == w.tk.cur.owner
            sid == w.tk.cur.sid
            w2 == IF ok
                  THEN [w EXCEPT !.inst[i][sid] = "running", !.servers[sid] = i]
                  ELSE [w EXCEPT !.inst[i][sid] = "none"]
        IN  Commit(t, ContinueStartAll(w2, SkillDesc(w.tk.skill)))

(* the permissions a skill body grants or revokes on its runtime *)
BodyPermissions == {McpPermA}

(* the skill body grants or revokes a permission on its own runtime *)
BodyPermChange(t) ==
    /\ sk_task[t].pc = "body"
    /\ sk_task[t].mcp_runtime # 0
    /\ ~sk_task[t].changed
    /\ \E perm \in BodyPermissions, grant \in BOOLEAN :
        LET i == sk_task[t].mcp_runtime
        IN  /\ sk_runtimes' = IF grant THEN grant_permissions(sk_runtimes, i, {perm})
                              ELSE revoke_permissions(sk_runtimes, i, {perm})
            /\ sk_task' = [sk_task EXCEPT ![t].changed = TRUE,
                              ![t].expected = IF grant THEN @ \cup {perm}
                                              ELSE @ \ {perm}]
    /\ UNCHANGED <<sk_enable_mcp, sk_registry, sk_mcp_started, sk_servers, sk_inst>>

(* the skill body ends: a body holding a runtime makes a last tool call,   *)
(* which fails when a server it was given is no longer running; then the   *)
(* body returns or raises and invoke_async's finally follows               *)
BodyEnd(t) ==
    /\ sk_task[t].pc = "body"
    /\ \E ok \in BOOLEAN :
        LET w == World(t)
            reached == w.tk.using \subseteq RunningServers(w)
        IN  Commit(t, SkillFinally([w EXCEPT !.tk.lost = ~reached,
                                            !.tk.outcome =
                                       IF ok /\ reached THEN "returned" ELSE "raised"]))

(* server.stop() completes: _started is cleared, stop_server removes the   *)
(* id from _servers (a KeyError is logged by stop_all_servers)             *)
ServerStopped(t) ==
    /\ sk_task[t].pc = "await_stop"
    /\ LET w == World(t)
           i == w.tk.cur.owner
           sid == w.tk.cur.sid
       IN  Commit(t, ContinueStopAll([w EXCEPT !.inst[i][sid] = "none",
                                               !.servers[sid] = 0]))

InitS ==
    /\ RunnerIdle
    /\ BridgeIdle
    /\ DetIdle
    /\ InitSkill
    /\ CallsIdle
    /\ MetricsIdle
    /\ ToolIdle
    /\ StoreIdle
    /\ JsonIdle
    /\ RunIdle

NextS ==
    \/ \E t \in Tasks : InvokeAsync(t) /\ UNCHANGED not_skill_vars
    \/ \E t \in Tasks : ServerStarted(t) /\ UNCHANGED not_skill_vars
    \/ \E t \in Tasks : BodyPermChange(t) /\ UNCHANGED not_skill_vars
    \/ \E t \in Tasks : BodyEnd(t) /\ UNCHANGED not_skill_vars
    \/ \E t \in Tasks : ServerStopped(t) /\ UNCHANGED not_skill_vars

SpecSkill == InitS /\ [][NextS]_vars

(***************************************************************************)
(* Invocations and the objects their callers own: SpecCalls                *)
(*                                                                         *)
(* A context map is an object of the caller: invoke_mag is given one or    *)
(* None, a Delegation always holds one.  An invocation works on the        *)
(* caller's map itself when `context or {}` finds it non-empty and on a    *)
(* new private map otherwise.  The registry hands out one cached agent     *)
(* descriptor.  An invocation runs from its entry to the end of            *)
(* _prepare_execution without suspension, then through its attempts or     *)
(* body, then through its `finally`; invocations overlap in between.       *)
(***************************************************************************)
CallerMaps == {"m1", "m2"}

NoRunId == [kind |-> "absent", n |-> 0]
CallerRunId == [kind |-> "caller", n |-> 1]

(* f"mag-{uuid.uuid4().hex[:8]}" / f"sag-{...}": the n-th generated id,    *)
(* taken to differ from every other id                                     *)
Uuid(n) == [kind |-> "uuid", n |-> n]

(* {} *)
EmptyMap ==
    [marker |-> FALSE, run_id |-> NoRunId, deterministic |-> FALSE,
     has_prev |-> FALSE, prev |-> FALSE]

(* the maps a caller builds: an unrelated key, a run_id, deterministic;    *)
(* the callers hold an empty map m1 and a non-empty map m2. A map reused   *)
(* from an earlier deterministic call still holds the key that call wrote, *)
(* "_previous_deterministic_mode": False (it is written only when the flag *)
(* was off)                                                                *)
InitMaps ==
    [marker : BOOLEAN, run_id : {NoRunId, CallerRunId}, deterministic : BOOLEAN,
     has_prev : BOOLEAN, prev : {FALSE}]

(* bool(context): an empty dict is false *)
Truthy(m) == m # EmptyMap

BaseConfig == "base"
PatchedConfig == "patched"

(* magsag.runner_determinism.apply_deterministic_settings: returns the     *)
(* patched settings                                                        *)
apply_deterministic_settings(provider_config) == PatchedConfig

NoInvocation ==
    [pc |-> "idle", fn |-> "none", arg |-> "none", ctx_ref |-> "local",
     local |-> EmptyMap, run_id |-> NoRunId, deterministic |-> FALSE,
     agent_config |-> BaseConfig, flag0 |-> FALSE, overlapped |-> FALSE]

InitCalls ==
    /\ c_flag \in BOOLEAN
    /\ \E m \in InitMaps :
        /\ Truthy(m)
        /\ c_maps = [id \in CallerMaps |-> IF id = "m1" THEN EmptyMap ELSE m]
    /\ c_cache = [provider_config |-> BaseConfig]
    /\ c_uuid = 0
    /\ c_inv = [i \in Invocations |-> NoInvocation]

(* a variant whose copy still shares the raw dict of the cached descriptor *)
CopyAgentShallow(cached) == [raw |-> "shared", provider_config |-> cached.provider_config]

(* agent = copy.copy(cached_agent); agent.raw = copy.deepcopy(cached_agent.raw) *)
CopyAgent(cached) == [raw |-> "own", provider_config |-> cached.provider_config]

(* _prepare_execution on the map the invocation works on: the stash and    *)
(* the flag, the copy of the descriptor and its patched provider_config,   *)
(* and the provider settings the plans are made from                       *)
CallPrepare(ctx, flag, cache, oc) ==
    LET agent == CopyAgent(cache)
        patched == ctx.deterministic /\ oc \notin {"unknown_agent", "settings_error"}
    IN  [ctx |-> IF oc = "unknown_agent" THEN ctx ELSE DetStash(ctx, flag),
         flag |-> CASE oc = "unknown_agent" -> flag
                    [] oc = "settings_error" ->
                         DetSettingsFailed(flag, DetEnter(ctx, flag))
                    [] OTHER -> DetEnter(ctx, flag),
         cache |-> IF patched /\ agent.raw = "shared"
                   THEN [cache EXCEPT !.provider_config =
                                          apply_deterministic_settings(@)]
                   ELSE cache,
         agent_config |-> IF patched
                          THEN apply_deterministic_settings(agent.provider_config)
                          ELSE cache.provider_config,
         ok |-> oc = "ok"]

(* another invocation is between its entry and its `finally` *)
OthersRunning(i) == \E j \in Invocations \ {i} : c_inv[j].pc = "running"

(* the invocation is under way, or preparation raised and the `finally`    *)
(* has already run; flag0 is the flag as the call found it, overlapped     *)
(* whether another invocation ran at any time during this one              *)
CallCommit(i, f, arg, ref, rid, generated, deterministic, p) ==
    /\ c_maps' = IF ref = "local" THEN c_maps ELSE [c_maps EXCEPT ![ref] = p.ctx]
    /\ c_cache' = p.cache
    /\ c_uuid' = IF generated THEN c_uuid + 1 ELSE c_uuid
    /\ c_flag' = IF p.ok THEN p.flag ELSE RestoreFlag(p.ctx, p.flag)
    /\ c_inv' = [j \in Invocations |->
                    IF j = i
                    THEN [pc |-> IF p.ok THEN "running" ELSE "done",
                          fn |-> f, arg |-> arg, ctx_ref |-> ref,
                          local |-> IF ref = "local" /\ p.ok THEN p.ctx ELSE EmptyMap,
                          run_id |-> rid, deterministic |-> deterministic,
                          agent_config |-> p.agent_config,
                          flag0 |-> get_deterministic_mode(c_flag),
                          overlapped |-> OthersRunning(i)]
                    ELSE IF c_inv[j].pc = "running"
                         THEN [c_inv[j] EXCEPT !.overlapped = TRUE]
                         ELSE c_inv[j]]

(* invoke_mag(slug, payload, context): context = context or {}; the run id *)
(* is read from the map or generated, and written into the map             *)
CallMag(i) ==
    /\ c_inv[i].pc = "idle"
    /\ \E arg \in {"none"} \cup CallerMaps, oc \in PrepareOutcomes :
        LET provided == arg # "none" /\ Truthy(c_maps[arg])
            ref == IF provided THEN arg ELSE "local"
            ctx0 == IF provided THEN c_maps[arg] ELSE EmptyMap
            generated == ctx0.run_id = NoRunId
            rid == IF generated THEN Uuid(c_uuid + 1) ELSE ctx0.run_id
            ctx1 == [ctx0 EXCEPT !.run_id = rid]
        IN  /\ (oc = "settings_error" => ctx1.deterministic)
            /\ CallCommit(i, "invoke_mag", arg, ref, rid, generated, ctx1.deterministic,
                          CallPrepare(ctx1, c_flag, c_cache, oc))

(* invoke_sag / invoke_sag_async (delegation): a generated run id, and     *)
(* context = delegation.context or {}                                      *)
CallSag(i) ==
    /\ c_inv[i].pc = "idle"
    /\ \E f \in SagFns, arg \in CallerMaps, oc \in PrepareOutcomes :
        LET provided == Truthy(c_maps[arg])
            ref == IF provided THEN arg ELSE "local"
            ctx0 == IF provided THEN c_maps[arg] ELSE EmptyMap
        IN  /\ (oc = "settings_error" => ctx0.deterministic)
            /\ CallCommit(i, f, arg, ref, Uuid(c_uuid + 1), TRUE, ctx0.deterministic,
                          CallPrepare(ctx0, c_flag, c_cache, oc))

(* the map the invocation works on, as it is now *)
CallContext(i) ==
    IF c_inv[i].ctx_ref = "local" THEN c_inv[i].local ELSE c_maps[c_inv[i].ctx_ref]

(* the invocation ends: `if context and "_previous_deterministic_mode" in  *)
(* context: set_deterministic_mode(context[...])`                          *)
CallFinally(i) ==
    /\ c_inv[i].pc = "running"
    /\ c_flag' = RestoreFlag(CallContext(i), c_flag)
    /\ c_inv' = [c_inv EXCEPT ![i].pc = "done", ![i].local = EmptyMap]
    /\ UNCHANGED <<c_maps, c_cache, c_uuid>>

InitC ==
    /\ RunnerIdle
    /\ BridgeIdle
    /\ DetIdle
    /\ SkillIdle
    /\ InitCalls
    /\ MetricsIdle
    /\ ToolIdle
    /\ StoreIdle
    /\ JsonIdle
    /\ RunIdle

NextC ==
    \/ \E i \in Invocations : CallMag(i) /\ UNCHANGED not_call_vars
    \/ \E i \in Invocations : CallSag(i) /\ UNCHANGED not_call_vars
    \/ \E i \in Invocations : CallFinally(i) /\ UNCHANGED not_call_vars

SpecCalls == InitC /\ [][NextC]_vars

(***************************************************************************)
(* The metrics registry under concurrent callers: SpecMetrics              *)
(*                                                                         *)
(* Each thread calls MetricsRegistry.record(outcome) at the end of an      *)
(* engine run, or snapshot() for a health report.  A thread runs one       *)
(* statement, and one load or store of a counter, at a time.               *)
(***************************************************************************)
TurnsPerRun == 2

ZeroMetrics == [runs_total |-> 0, runs_failed |-> 0, turns_total |-> 0]

NoThread ==
    [pc |-> "idle", op |-> "none", ok |-> TRUE, tmp |-> 0, snap |-> ZeroMetrics]

InitMetrics ==
    /\ m_lock = 0
    /\ m_metrics = ZeroMetrics
    /\ m_thr = [t \in Invocations |-> NoThread]

(* a variant of the lock that excludes nobody *)
LockFreeAlways(lock) == TRUE

(* threading.RLock: free for a thread when no other thread holds it *)
LockFree(lock) == lock = 0

(* record(outcome) / snapshot(): `with self._lock:` is entered *)
MetricsAcquire(t) ==
    /\ m_thr[t].pc = "idle"
    /\ LockFree(m_lock)
    /\ \E op \in {"record", "snapshot"}, ok \in BOOLEAN :
        /\ (op = "snapshot" => ok)
        /\ m_thr' = [m_thr EXCEPT ![t].op = op, ![t].ok = ok,
                        ![t].pc = IF op = "record" THEN "load_total" ELSE "copy_total"]
    /\ m_lock' = t
    /\ UNCHANGED m_metrics

(* self._metrics.runs_total += 1: the load *)
RecordLoadTotal(t) ==
    /\ m_thr[t].pc = "load_total"
    /\ m_thr' = [m_thr EXCEPT ![t].tmp = m_metrics.runs_total, ![t].pc = "store_total"]
    /\ UNCHANGED <<m_lock, m_metrics>>

(* self._metrics.runs_total += 1: the store *)
RecordStoreTotal(t) ==
    /\ m_thr[t].pc = "store_total"
    /\ m_metrics' = [m_metrics EXCEPT !.runs_total = m_thr[t].tmp + 1]
    /\ m_thr' = [m_thr EXCEPT ![t].tmp = 0,
                    ![t].pc = IF m_thr[t].ok THEN "load_turns" ELSE "load_failed"]
    /\ UNCHANGED m_lock

(* if not outcome.ok: self._metrics.runs_failed += 1: the load *)
RecordLoadFailed(t) ==
    /\ m_thr[t].pc = "load_failed"
    /\ m_thr' = [m_thr EXCEPT ![t].tmp = m_metrics.runs_failed, ![t].pc = "store_failed"]
    /\ UNCHANGED <<m_lock, m_metrics>>

(* if not outcome.ok: self._metrics.runs_failed += 1: the store *)
RecordStoreFailed(t) ==
    /\ m_thr[t].pc = "store_failed"
    /\ m_metrics' = [m_metrics EXCEPT !.runs_failed = m_thr[t].tmp + 1]
    /\ m_thr' = [m_thr EXCEPT ![t].tmp = 0, ![t].pc = "load_turns"]
    /\ UNCHANGED m_lock

(* self._metrics.turns_total += turn_count: the load *)
RecordLoadTurns(t) ==
    /\ m_thr[t].pc = "load_turns"
    /\ m_thr' = [m_thr EXCEPT ![t].tmp = m_metrics.turns_total, ![t].pc = "store_turns"]
    /\ UNCHANGED <<m_lock, m_metrics>>

(* self._metrics.turns_total += turn_count: the store *)
RecordStoreTurns(t) ==
    /\ m_thr[t].pc = "store_turns"
    /\ m_metrics' = [m_metrics EXCEPT !.turns_total = m_thr[t].tmp + TurnsPerRun]
    /\ m_thr' = [m_thr EXCEPT ![t].tmp = 0, ![t].pc = "release"]
    /\ UNCHANGED m_lock

(* snapshot.runs_total = self._metrics.runs_total *)
SnapshotCopyTotal(t) ==
    /\ m_thr[t].pc = "copy_total"
    /\ m_thr' = [m_thr EXCEPT ![t].snap.runs_total = m_metrics.runs_total,
                              ![t].pc = "copy_failed"]
    /\ UNCHANGED <<m_lock, m_metrics>>

(* snapshot.runs_failed = self._metrics.runs_failed *)
SnapshotCopyFailed(t) ==
    /\ m_thr[t].pc = "copy_failed"
    /\ m_thr' = [m_thr EXCEPT ![t].snap.runs_failed = m_metrics.runs_failed,
                              ![t].pc = "copy_turns"]
    /\ UNCHANGED <<m_lock, m_metrics>>

(* snapshot.turns_total = self._metrics.turns_total *)
SnapshotCopyTurns(t) ==
    /\ m_thr[t].pc = "copy_turns"
    /\ m_thr' = [m_thr EXCEPT ![t].snap.turns_total = m_metrics.turns_total,
                              ![t].pc = "release"]
    /\ UNCHANGED <<m_lock, m_metrics>>

(* the `with` block is left: the lock is released by the thread holding it *)
MetricsRelease(t) ==
    /\ m_thr[t].pc = "release"
    /\ m_lock' = IF m_lock = t THEN 0 ELSE m_lock
    /\ m_thr' = [m_thr EXCEPT ![t].pc = "done"]
    /\ UNCHANGED m_metrics

InitM ==
    /\ RunnerIdle
    /\ BridgeIdle
    /\ DetIdle
    /\ SkillIdle
    /\ CallsIdle
    /\ InitMetrics
    /\ ToolIdle
    /\ StoreIdle
    /\ JsonIdle
    /\ RunIdle

NextM ==
    \/ \E t \in Invocations : MetricsAcquire(t) /\ UNCHANGED not_metric_vars
    \/ \E t \in Invocations : RecordLoadTotal(t) /\ UNCHANGED not_metric_vars
    \/ \E t \in Invocations : RecordStoreTotal(t) /\ UNCHANGED not_metric_vars
    \/ \E t \in Invocations : RecordLoadFailed(t) /\ UNCHANGED not_metric_vars
    \/ \E t \in Invocations : RecordStoreFailed(t) /\ UNCHANGED not_metric_vars
    \/ \E t \in Invocations : RecordLoadTurns(t) /\ UNCHANGED not_metric_vars
    \/ \E t \in Invocations : RecordStoreTurns(t) /\ UNCHANGED not_metric_vars
    \/ \E t \in Invocations : SnapshotCopyTotal(t) /\ UNCHANGED not_metric_vars
    \/ \E t \in Invocations : SnapshotCopyFailed(t) /\ UNCHANGED not_metric_vars
    \/ \E t \in Invocations : SnapshotCopyTurns(t) /\ UNCHANGED not_metric_vars
    \/ \E t \in Invocations : MetricsRelease(t) /\ UNCHANGED not_metric_vars

SpecMetrics == InitM /\ [][NextM]_vars

(***************************************************************************)
(* Tool calls through the protocol runtime: SpecTool                       *)
(*                                                                         *)
(* MCPRuntime.execute_tool (src/src/magsag/mcp/runtime.py), the            *)
(* permissions granted to and revoked from the runtime, the agent's tool   *)
(* policies and the attached observer.  execute_tool is a coroutine: it    *)
(* runs without interruption up to the await of the registry and again     *)
(* from the registry's answer to its return.                               *)
(***************************************************************************)
Servers == {"github", "notion"}
Tools == {"list_issues", "get_issue"}

(* "mcp:<server_id>" *)
McpPermission(server_id) == <<"mcp", server_id>>

(* the keys of policies["tools"]: "<server>.<tool>" and "<server>.*" *)
Qualified(server_id, tool_name) == <<server_id, tool_name>>
Wildcard(server_id) == <<server_id, "*">>
PolicyKeys == {Qualified("github", "list_issues"), Wildcard("github")}

(* the values of policies["tools"]: strings, and values that are no        *)
(* strings; None stands for a missing key                                  *)
PolicyStr(text) == [is_str |-> TRUE, text |-> text]
PolicyNone == [is_str |-> FALSE, text |-> "None"]
PolicyValues ==
    {PolicyStr(t) : t \in {"allow", "deny", "require-approval", "DENY"}}
        \cup {[is_str |-> FALSE, text |-> "deny"], PolicyNone}

(* get_current_agent_policies(): no policies bound, or a tools mapping *)
NoPolicies == [bound |-> FALSE, tools |-> [k \in PolicyKeys |-> PolicyNone]]
InitPolicies ==
    {NoPolicies} \cup [bound : {TRUE}, tools : [PolicyKeys -> PolicyValues]]

(* str.lower() *)
Lower(text) ==
    CASE text = "DENY" -> "deny"
      [] OTHER -> text

(* tools_policy.get(key) *)
PolicyGet(policies, key) ==
    IF policies.bound /\ key \in PolicyKeys THEN policies.tools[key] ELSE PolicyNone

(* MCPRuntime._resolve_policy: the tool's own entry, else the server's     *)
(* wildcard entry, lower-cased; None without a string entry                *)
_resolve_policy(policies, server_id, tool_name) ==
    LET value == PolicyGet(policies, Qualified(server_id, tool_name))
        wildcard == PolicyGet(policies, Wildcard(server_id))
    IN  IF value.is_str THEN Lower(value.text)
        ELSE IF wildcard.is_str THEN Lower(wildcard.text)
        ELSE "None"

(* MCPRuntime.check_permission *)
check_permission(granted, server_id) == McpPermission(server_id) \in granted

NoToolResult == [success |-> FALSE, error |-> "none", policy |-> "None", origin |-> "none"]

(* the MCPToolResult execute_tool builds when it refuses a call *)
RefusedResult(error, policy) ==
    [success |-> FALSE, error |-> error, policy |-> policy, origin |-> "runtime"]

(* the MCPToolResult the registry returns, after metadata.setdefault *)
RegistryResult(success, policy) ==
    [success |-> success, error |-> IF success THEN "none" ELSE "tool failed",
     policy |-> policy, origin |-> "registry"]

NoToolCall ==
    [pc |-> "idle", server_id |-> "none", tool_name |-> "none", permitted |-> FALSE,
     policy |-> "None", calls_before |-> 0, result |-> NoToolResult,
     raised |-> NoError]

Observers == {"none", "logging", "failing"}

InitTool ==
    /\ t_granted = {}
    /\ t_policies \in InitPolicies
    /\ t_observer \in Observers
    /\ t_registry_calls = 0
    /\ t_logged = 0
    /\ t_done = 0
    /\ t_call = NoToolCall

(* MCPRuntime.grant_permissions *)
GrantPermissions ==
    /\ \E server_id \in Servers :
        t_granted' = t_granted \cup {McpPermission(server_id)}
    /\ UNCHANGED <<t_policies, t_observer, t_registry_calls, t_logged, t_done, t_call>>

(* MCPRuntime.revoke_permissions *)
RevokePermissions ==
    /\ \E server_id \in Servers :
        t_granted' = t_granted \ {McpPermission(server_id)}
    /\ UNCHANGED <<t_policies, t_observer, t_registry_calls, t_logged, t_done, t_call>>

(* MCPRuntime._record_observability followed by `return result`: without   *)
(* an observer nothing is recorded; observer.log_mcp_call(record) is       *)
(* called unguarded, so what it raises leaves execute_tool                 *)
RecordAndReturn(call, tool_result) ==
    /\ t_logged' = IF t_observer = "logging" THEN t_logged + 1 ELSE t_logged
    /\ t_call' = IF t_observer = "failing"
                 THEN [call EXCEPT !.pc = "raised", !.result = NoToolResult,
                                   !.raised = [type |-> "ValueError", msg |-> "boom"]]
                 ELSE [call EXCEPT !.pc = "returned", !.result = tool_result]

(* execute_tool from its entry to its first return or to the await *)
ExecuteToolBegin ==
    /\ t_call.pc \in {"idle", "returned", "raised"}
    /\ t_done < MaxToolCalls
    /\ t_done' = t_done + 1
    /\ \E server_id \in Servers, tool_name \in Tools :
        LET permitted == check_permission(t_granted, server_id)
            policy_action == _resolve_policy(t_policies, server_id, tool_name)
            call == [NoToolCall EXCEPT !.server_id = server_id, !.tool_name = tool_name,
                                       !.permitted = permitted,
                                       !.policy = policy_action,
                                       !.calls_before = t_registry_calls]
        IN  IF ~permitted
            THEN /\ t_call' = [call EXCEPT !.pc = "returned",
                                  !.result = RefusedResult("Permission denied", "None")]
                 /\ UNCHANGED <<t_logged, t_registry_calls>>
            ELSE IF policy_action \in {"deny", "require-approval"}
            THEN /\ RecordAndReturn(call, RefusedResult(policy_action, policy_action))
                 /\ UNCHANGED t_registry_calls
            ELSE /\ t_call' = [call EXCEPT !.pc = "awaiting"]
                 /\ t_registry_calls' = t_registry_calls + 1
                 /\ UNCHANGED t_logged
    /\ UNCHANGED <<t_granted, t_policies, t_observer>>

(* the registry answers: execute_tool from the await to its return *)
ExecuteToolResume ==
    /\ t_call.pc = "awaiting"
    /\ \E success \in BOOLEAN :
        RecordAndReturn(t_call, RegistryResult(success, t_call.policy))
    /\ UNCHANGED <<t_granted, t_policies, t_observer, t_registry_calls, t_done>>

InitT ==
    /\ RunnerIdle
    /\ BridgeIdle
    /\ DetIdle
    /\ SkillIdle
    /\ CallsIdle
    /\ MetricsIdle
    /\ InitTool
    /\ StoreIdle
    /\ JsonIdle
    /\ RunIdle

NextT ==
    \/ GrantPermissions /\ UNCHANGED not_tool_vars
    \/ RevokePermissions /\ UNCHANGED not_tool_vars
    \/ ExecuteToolBegin /\ UNCHANGED not_tool_vars
    \/ ExecuteToolResume /\ UNCHANGED not_tool_vars

SpecTool == InitT /\ [][NextT]_vars

(***************************************************************************)
(* The session store under concurrent writers: SpecStore                   *)
(*                                                                         *)
(* SessionStore.upsert and SessionStore.list                               *)
(* (src/src/magsag/storage/session_store.py) on one directory and one      *)
(* engine.  Each writer is a thread of one of two processes and works      *)
(* through a SessionStore instance of its own or a shared one; worker 0    *)
(* lists the sessions.  A worker runs one lock operation or one file       *)
(* operation at a time.                                                    *)
(***************************************************************************)
Procs == {1, 2}
Stores == {1, 2}
Lister == 0
Writers == 1..NumWriters
StoreWorkers == {Lister} \cup Writers

(* the session a writer upserts: every writer a different one *)
SessionOf(w) == w
ExistingSession == 0

(* <engine>.json: missing, a JSON document holding sessions, or the        *)
(* beginning of a document while write_text is under way                   *)
FileAbsent == [kind |-> "absent", sessions |-> {}]
FileJson(sessions) == [kind |-> "json", sessions |-> sessions]
FilePartial == [kind |-> "partial", sessions |-> {}]

(* SessionStore._load_all: {} for a missing file and for a JSONDecodeError *)
_load_all(file) == IF file.kind = "json" THEN file.sessions ELSE {}

(* _shared_lock_for(root): one lock per process for the resolved root,     *)
(* whichever SessionStore instance asks                                    *)
_shared_lock_for(proc, store) == proc

NoWorker(op) ==
    [pc |-> "idle", op |-> op, proc |-> 1, store |-> 1, sessions |-> {},
     after_all |-> FALSE]

InitStore ==
    /\ s_rlock = [p \in Procs |-> 0]
    /\ s_flock = 0
    /\ s_file \in {FileAbsent, FileJson({ExistingSession})}
    /\ \E procs \in [StoreWorkers -> Procs], stores \in [StoreWorkers -> Stores] :
        s_workers = [w \in StoreWorkers |->
                        [NoWorker(IF w = Lister THEN "list" ELSE "upsert")
                            EXCEPT !.proc = procs[w], !.store = stores[w]]]

(* a variant in which the file lock excludes nobody *)
FileLockFreeAlways(holder) == TRUE

(* fcntl.flock(LOCK_EX) on a handle of its own: granted when no other      *)
(* handle holds the lock                                                   *)
FileLockFree(holder) == holder = 0

(* `with self._lock:` of _state_lock; list notes whether every upsert has  *)
(* completed when it is called                                             *)
StoreAcquireLock(w) ==
    LET lock == _shared_lock_for(s_workers[w].proc, s_workers[w].store)
    IN  /\ s_workers[w].pc = "idle"
        /\ s_rlock[lock] = 0
        /\ s_rlock' = [s_rlock EXCEPT ![lock] = w + 1]
        /\ s_workers' = [s_workers EXCEPT ![w].pc = "locked",
                            ![w].after_all = \A u \in Writers : s_workers[u].pc = "done"]
        /\ UNCHANGED <<s_flock, s_file>>

(* `with _acquire_file_lock(self._lock_path):` *)
StoreAcquireFileLock(w) ==
    /\ s_workers[w].pc = "locked"
    /\ FileLockFree(s_flock)
    /\ s_flock' = w + 1
    /\ s_workers' = [s_workers EXCEPT ![w].pc = "flocked"]
    /\ UNCHANGED <<s_rlock, s_file>>

(* sessions = self._load_all(engine) *)
StoreLoadAll(w) ==
    /\ s_workers[w].pc = "flocked"
    /\ s_workers' = [s_workers EXCEPT ![w].pc = "loaded",
                                      ![w].sessions = _load_all(s_file)]
    /\ UNCHANGED <<s_rlock, s_flock, s_file>>

(* upsert: sessions[meta.session_id] = meta, and _dump_all opens the file  *)
(* for writing, which truncates it                                         *)
UpsertDumpOpen(w) ==
    /\ s_workers[w].pc = "loaded"
    /\ s_workers[w].op = "upsert"
    /\ s_workers' = [s_workers EXCEPT ![w].pc = "dumping",
                        ![w].sessions = @ \cup {SessionOf(w)}]
    /\ s_file' = FilePartial
    /\ UNCHANGED <<s_rlock, s_flock>>

(* _dump_all: the document is written and the file closed *)
UpsertDumpWrite(w) ==
    /\ s_workers[w].pc = "dumping"
    /\ s_file' = FileJson(s_workers[w].sessions)
    /\ s_workers' = [s_workers EXCEPT ![w].pc = "dumped"]
    /\ UNCHANGED <<s_rlock, s_flock>>

(* leaving _acquire_file_lock: flock(LOCK_UN) *)
StoreReleaseFileLock(w) ==
    /\ \/ s_workers[w].pc = "dumped"
       \/ s_workers[w].pc = "loaded" /\ s_workers[w].op = "list"
    /\ s_flock' = IF s_flock = w + 1 THEN 0 ELSE s_flock
    /\ s_workers' = [s_workers EXCEPT ![w].pc = "funlocked"]
    /\ UNCHANGED <<s_rlock, s_file>>

(* leaving `with self._lock:`; upsert or list returns *)
StoreReleaseLock(w) ==
    LET lock == _shared_lock_for(s_workers[w].proc, s_workers[w].store)
    IN  /\ s_workers[w].pc = "funlocked"
        /\ s_rlock' = [s_rlock EXCEPT ![lock] = 0]
        /\ s_workers' = [s_workers EXCEPT ![w].pc = "done"]
        /\ UNCHANGED <<s_flock, s_file>>

InitSt ==
    /\ RunnerIdle
    /\ BridgeIdle
    /\ DetIdle
    /\ SkillIdle
    /\ CallsIdle
    /\ MetricsIdle
    /\ ToolIdle
    /\ InitStore
    /\ JsonIdle
    /\ RunIdle

NextSt ==
    \/ \E w \in StoreWorkers : StoreAcquireLock(w) /\ UNCHANGED not_store_vars
    \/ \E w \in StoreWorkers : StoreAcquireFileLock(w) /\ UNCHANGED not_store_vars
    \/ \E w \in StoreWorkers : StoreLoadAll(w) /\ UNCHANGED not_store_vars
    \/ \E w \in Writers : UpsertDumpOpen(w) /\ UNCHANGED not_store_vars
    \/ \E w \in Writers : UpsertDumpWrite(w) /\ UNCHANGED not_store_vars
    \/ \E w \in StoreWorkers : StoreReleaseFileLock(w) /\ UNCHANGED not_store_vars
    \/ \E w \in StoreWorkers : StoreReleaseLock(w) /\ UNCHANGED not_store_vars

SpecStore == InitSt /\ [][NextSt]_vars

(***************************************************************************)
(* The incremental parser of newline-delimited JSON: SpecJson              *)
(*                                                                         *)
(* JsonStreamParser.feed and flush (src/src/magsag/runners/json_stream.py) *)
(* driven as iter_decode drives them: the stream is fed chunk by chunk,    *)
(* cut anywhere, and flush is called after the last chunk.  Texts are      *)
(* sequences of characters: "{", "}", the object bodies "a" and "b",       *)
(* " ", "\n", and "^" for the two characters ESC [ that begin an ANSI      *)
(* escape sequence.                                                        *)
(***************************************************************************)
NL == "\n"
ObjectBodies == {"a", "b"}

(* the text of a JSON object *)
Obj(k) == <<"{", k, "}">>

(* a complete line that is no JSON document: an unterminated object *)
BadLine == <<"{", "a">>

(* an object wrapped in colour escape sequences, and an empty line *)
ColouredLine == <<"^", "m">> \o Obj("a")
BlankLine == <<>>

LineTexts ==
    {Obj(k) : k \in ObjectBodies} \cup {<<" ">> \o Obj("a"), BadLine, ColouredLine, BlankLine}

RECURSIVE JoinLines(_)
JoinLines(lines) ==
    IF lines = <<>> THEN <<>> ELSE Head(lines) \o <<NL>> \o JoinLines(Tail(lines))

(* the stream: the lines, each ended by a newline except perhaps the last *)
StreamOf(lines, trailing) ==
    LET text == JoinLines(lines)
    IN  IF trailing \/ text = <<>> THEN text ELSE SubSeq(text, 1, Len(text) - 1)

(* the final bytes of an escape sequence among the characters: [@-~] *)
AnsiFinal == {"{", "}", "a", "b", "m"}

(* the length of the escape sequence at the head of s (ESC [, any          *)
(* intermediate bytes, a final byte), or 0: ANSI_ESCAPE_RE.match           *)
RECURSIVE AnsiTail(_)
AnsiTail(s) ==
    IF s = <<>> THEN 0
    ELSE IF Head(s) = " "
         THEN (IF AnsiTail(Tail(s)) = 0 THEN 0 ELSE 1 + AnsiTail(Tail(s)))
    ELSE IF Head(s) \in AnsiFinal THEN 1
    ELSE 0

(* strip_ansi: ANSI_ESCAPE_RE.sub("", value) *)
RECURSIVE strip_ansi(_)
strip_ansi(value) ==
    IF value = <<>> THEN <<>>
    ELSE IF Head(value) = "^" /\ AnsiTail(Tail(value)) > 0
         THEN strip_ansi(SubSeq(value, 2 + AnsiTail(Tail(value)), Len(value)))
    ELSE <<Head(value)>> \o strip_ansi(Tail(value))

(* str.strip() *)
RECURSIVE Strip(_)
Strip(s) ==
    IF s = <<>> THEN <<>>
    ELSE IF Head(s) \in {" ", NL} THEN Strip(Tail(s))
    ELSE IF s[Len(s)] \in {" ", NL} THEN Strip(SubSeq(s, 1, Len(s) - 1))
    ELSE s

(* buffer.find("\n"), counted from 1; 0 when there is none *)
RECURSIVE Find(_)
Find(buffer) ==
    IF buffer = <<>> THEN 0
    ELSE IF Head(buffer) = NL THEN 1
    ELSE IF Find(Tail(buffer)) = 0 THEN 0
    ELSE 1 + Find(Tail(buffer))

(* json.loads: the text decodes when it is exactly one object; anything    *)
(* else raises JSONDecodeError                                             *)
Decodes(text) == \E k \in ObjectBodies : text = Obj(k)
json_loads(text) == text[2]

(* the `while True` loop of feed *)
RECURSIVE FeedLoop(_, _)
FeedLoop(buffer, items) ==
    LET newline_index == Find(buffer)
        candidate == Strip(SubSeq(buffer, 1, newline_index - 1))
        rest == SubSeq(buffer, newline_index + 1, Len(buffer))
    IN  IF newline_index = 0 THEN [pending |-> buffer, items |-> items]
        ELSE IF candidate = <<>> THEN FeedLoop(rest, items)
        ELSE IF Decodes(candidate)
             THEN FeedLoop(rest, Append(items, json_loads(candidate)))
        ELSE [pending |-> candidate \o <<NL>> \o rest, items |-> items]

(* JsonStreamParser.feed *)
feed(buffered, chunk) ==
    IF chunk = <<>> THEN [pending |-> buffered, items |-> <<>>]
    ELSE FeedLoop(buffered \o strip_ansi(chunk), <<>>)

(* a variant that discards what is buffered *)
flush_discarding(buffered) == [pending |-> <<>>, items |-> <<>>]

(* JsonStreamParser.flush *)
flush(buffered) ==
    IF Strip(buffered) = <<>> THEN [pending |-> <<>>, items |-> <<>>]
    ELSE IF Decodes(Strip(buffered))
         THEN [pending |-> <<>>, items |-> <<json_loads(Strip(buffered))>>]
    ELSE [pending |-> <<>>, items |-> <<>>]

(* the objects a call returned, with the call and the part of the stream   *)
(* it was given                                                            *)
Emitted(items, by, from, to) ==
    [i \in 1..Len(items) |-> [obj |-> items[i], by |-> by, from |-> from, to |-> to]]

InitJson ==
    /\ \E n \in 0..MaxLines : j_lines \in [1..n -> LineTexts]
    /\ j_trailing \in BOOLEAN
    /\ j_input = StreamOf(j_lines, j_trailing)
    /\ j_fed = 0
    /\ j_pending = <<>>
    /\ j_out = <<>>
    /\ j_pc = "feeding"

(* parser.feed(chunk) for the next chunk of the stream, of any length *)
Feed ==
    /\ j_pc = "feeding"
    /\ \E n \in 0..Len(j_input) :
        LET r == feed(j_pending, SubSeq(j_input, 1, n))
        IN  /\ j_pending' = r.pending
            /\ j_out' = j_out \o Emitted(r.items, "feed", j_fed, j_fed + n)
            /\ j_input' = SubSeq(j_input, n + 1, Len(j_input))
            /\ j_fed' = j_fed + n
    /\ UNCHANGED <<j_lines, j_trailing, j_pc>>

(* parser.flush() after the last chunk *)
Flush ==
    /\ j_pc = "feeding"
    /\ j_input = <<>>
    /\ LET r == flush(j_pending)
       IN  /\ j_pending' = r.pending
           /\ j_out' = j_out \o Emitted(r.items, "flush", j_fed, j_fed)
    /\ j_pc' = "flushed"
    /\ UNCHANGED <<j_lines, j_trailing, j_input, j_fed>>

InitJ ==
    /\ RunnerIdle
    /\ BridgeIdle
    /\ DetIdle
    /\ SkillIdle
    /\ CallsIdle
    /\ MetricsIdle
    /\ ToolIdle
    /\ StoreIdle
    /\ InitJson
    /\ RunIdle

NextJ ==
    \/ Feed /\ UNCHANGED not_json_vars
    \/ Flush /\ UNCHANGED not_json_vars

SpecJson == InitJ /\ [][NextJ]_vars

(***************************************************************************)
(* One engine run after the other: SpecRun                                 *)
(*                                                                         *)
(* execute_run (src/src/magsag/agent/runner.py): for the roles "mag" and   *)
(* "sag" in turn it builds the engine's runner, runs it, keeps the result, *)
(* stores the session and reports to the observer; then it records the     *)
(* outcome in the metrics registry.  The engines are those a RunSpec can   *)
(* name (EngineName); the runner is the environment: it returns a result   *)
(* or raises.                                                              *)
(***************************************************************************)
EngineNames == {"codex-cli", "claude-cli", "openai-api", "anthropic-api", "noop"}
role_sequence == <<"mag", "sag">>

(* RunSpec.engine_for *)
engine_for(spec, role) == IF role = "mag" THEN spec.engine_mag ELSE spec.engine_sag

(* _build_runner: a runner for every known engine, ValueError otherwise *)
_build_runner(engine_name) ==
    IF engine_name \in EngineNames
    THEN [kind |-> "runner", engine |-> engine_name]
    ELSE [kind |-> "ValueError", engine |-> engine_name]

(* what runner.run does: it returns a result (return code, session,        *)
(* events) or raises                                                       *)
RunnerOutcomes ==
    [kind : {"return"}, returncode : {0, 1}, session : BOOLEAN, msg : {"None"}]
        \cup [kind : {"raise"}, returncode : {0}, session : {FALSE}, msg : {"boom"}]

(* the EngineExecutionResult a runner returns *)
ReturnedResult(engine, role, o) ==
    [engine |-> engine, role |-> role, returncode |-> o.returncode,
     error |-> "None", session |-> o.session, events |-> 1]

(* a variant that reports a captured exception with return code 0 *)
FailedResultZero(engine, role, error_message) ==
    [engine |-> engine, role |-> role, returncode |-> 0,
     error |-> error_message, session |-> FALSE, events |-> 0]

(* the EngineExecutionResult built in `except Exception` *)
FailedResult(engine, role, error_message) ==
    [engine |-> engine, role |-> role, returncode |-> -1,
     error |-> error_message, session |-> FALSE, events |-> 0]

(* EngineExecutionResult.ok and RunOutcome.ok *)
ResultOk(res) == res.returncode = 0 /\ res.error = "None"
OutcomeOk(results, errors) ==
    (\A i \in DOMAIN results : ResultOk(results[i])) /\ errors = <<>>

RECURSIVE SumEvents(_)
SumEvents(results) ==
    IF results = <<>> THEN 0 ELSE Head(results).events + SumEvents(Tail(results))

(* MetricsRegistry.record *)
MetricsRecord(metrics, results, errors) ==
    [runs_total |-> metrics.runs_total + 1,
     runs_failed |-> metrics.runs_failed + (IF OutcomeOk(results, errors) THEN 0 ELSE 1),
     turns_total |-> metrics.turns_total + SumEvents(results)]

InitRun ==
    /\ r_spec \in [engine_mag : EngineNames, engine_sag : EngineNames]
    /\ r_observer \in BOOLEAN
    /\ r_pc = "idle"
    /\ r_role = 0
    /\ r_results = <<>>
    /\ r_errors = <<>>
    /\ r_runs = <<>>
    /\ r_sessions = {}
    /\ r_logged = 0
    /\ r_metrics = ZeroMetrics
    /\ r_recorded = 0
    /\ r_done = 0

(* execute_run is called: results = [], errors = [] *)
ExecuteRunBegin ==
    /\ r_pc \in {"idle", "returned"}
    /\ r_done < MaxRuns
    /\ r_pc' = "role"
    /\ r_role' = 1
    /\ r_results' = <<>>
    /\ r_errors' = <<>>
    /\ r_runs' = <<>>
    /\ r_logged' = 0
    /\ UNCHANGED <<r_spec, r_observer, r_sessions, r_metrics, r_recorded, r_done>>

(* the head of the loop body: the runner is built and "engine.start" is    *)
(* logged                                                                  *)
EngineStart ==
    /\ r_pc = "role"
    /\ LET runner == _build_runner(engine_for(r_spec, role_sequence[r_role]))
       IN  /\ r_pc' = IF runner.kind = "runner" THEN "engine" ELSE "raised"
           /\ r_logged' = IF runner.kind = "runner" /\ r_observer
                          THEN r_logged + 1 ELSE r_logged
    /\ UNCHANGED <<r_spec, r_observer, r_role, r_results, r_errors, r_runs,
                   r_sessions, r_metrics, r_recorded, r_done>>

(* runner.run and the rest of the loop body: the result or the captured    *)
(* exception is appended, the session is upserted, the events and          *)
(* "engine.finish" are logged                                              *)
EngineRun ==
    /\ r_pc = "engine"
    /\ \E o \in RunnerOutcomes :
        LET role == role_sequence[r_role]
            engine_name == engine_for(r_spec, role)
            res == IF o.kind = "raise"
                   THEN FailedResult(engine_name, role, o.msg)
                   ELSE ReturnedResult(engine_name, role, o)
        IN  /\ r_runs' = Append(r_runs, [role |-> role, engine |-> engine_name,
                                          raised |-> o.kind = "raise", msg |-> o.msg])
            /\ r_errors' = IF o.kind = "raise" THEN Append(r_errors, o.msg) ELSE r_errors
            /\ r_results' = Append(r_results, res)
            /\ r_sessions' = IF res.session
                             THEN r_sessions \cup {<<res.engine, role>>}
                             ELSE r_sessions
            /\ r_logged' = IF r_observer THEN r_logged + res.events + 1 ELSE r_logged
    /\ IF r_role < Len(role_sequence)
       THEN r_role' = r_role + 1 /\ r_pc' = "role"
       ELSE r_role' = r_role /\ r_pc' = "finish"
    /\ UNCHANGED <<r_spec, r_observer, r_metrics, r_recorded, r_done>>

(* outcome = RunOutcome(...); registry.record(outcome); return outcome *)
ExecuteRunFinish ==
    /\ r_pc = "finish"
    /\ r_metrics' = MetricsRecord(r_metrics, r_results, r_errors)
    /\ r_recorded' = r_recorded + 1
    /\ r_done' = r_done + 1
    /\ r_pc' = "returned"
    /\ UNCHANGED <<r_spec, r_observer, r_role, r_results, r_errors, r_runs,
                   r_sessions, r_logged>>

InitR ==
    /\ RunnerIdle
    /\ BridgeIdle
    /\ DetIdle
    /\ SkillIdle
    /\ CallsIdle
    /\ MetricsIdle
    /\ ToolIdle
    /\ StoreIdle
    /\ JsonIdle
    /\ InitRun

NextR ==
    \/ ExecuteRunBegin /\ UNCHANGED not_run_vars
    \/ EngineStart /\ UNCHANGED not_run_vars
    \/ EngineRun /\ UNCHANGED not_run_vars
    \/ ExecuteRunFinish /\ UNCHANGED not_run_vars

SpecRun == InitR /\ [][NextR]_vars

(***************************************************************************)
(* Properties of one invocation (Spec)                                     *)
(***************************************************************************)
Terminal == pc \in {"returned", "raised"}
TotalFailed ==
    hist.failed.pre_eval + hist.failed.execute + hist.failed.model_output
        + hist.failed.post_eval
Min(a, b) == IF a < b THEN a ELSE b

(* C1: with max_attempts >= 2, a fail-closed pre-evaluation failure on the *)
(* first attempt aborts the delegation: pre-evaluation has run exactly     *)
(* once, the body never runs, no further attempt and no backoff wait.      *)
C1_PreEvalFailClosedAborts ==
    ( /\ fn \in SagFns
      /\ max_attempts >= 2
      /\ hist.failed.pre_eval >= 1
      /\ hist.failed.execute = 0
      /\ hist.failed.model_output = 0
      /\ hist.failed.post_eval = 0 )
    => ( /\ hist.pre_eval = 1
         /\ hist.body = 0
         /\ attempt = 0
         /\ hist.sleeps = <<>> )

(* C2: an invocation that bound an observability logger has called         *)
(* finalize() on it exactly once when it returns or raises, and never more *)
(* than once before.                                                       *)
C2_FinalizeExactlyOnce ==
    /\ hist.finalize <= 1
    /\ (hist.finalize = 1 => exec_ctx)
    /\ (Terminal /\ exec_ctx => hist.finalize = 1)

C2_Witness ==
    /\ pc = "returned"
    /\ exec_ctx
    /\ result.status = "success"
    /\ result.attempts >= 2
    /\ hist.finalize = 1

(* C3: when the body raises on every attempt (pre-evaluation passing),     *)
(* invoke_sag runs the body max_attempts times and returns a failure       *)
(* Result with attempts = max_attempts and error = the message of the      *)
(* exception the last attempt's body raised.                               *)
C3_ExhaustedFailureResult ==
    ( /\ fn = "invoke_sag"
      /\ pc = "returned"
      /\ max_attempts >= 1
      /\ entry_async
      /\ hist.failed.execute = max_attempts )
    => ( /\ hist.body = max_attempts
         /\ result.status = "failure"
         /\ result.attempts = max_attempts
         /\ result.error = Str(hist.body_error) )

C6_MagRestoresFlag ==
    ( /\ fn = "invoke_mag"
      /\ context.deterministic
      /\ ~hist.flag_at_entry
      /\ Terminal )
    => deterministic_mode = FALSE

C6_Witness ==
    /\ fn = "invoke_mag"
    /\ context.deterministic
    /\ ~hist.flag_at_entry
    /\ pc = "raised"
    /\ raised \in BodyErrors
    /\ hist.restores = 1
    /\ deterministic_mode = FALSE

(* C25: an invocation that changed the deterministic flag has, when it    *)
(* returns or raises, restored the flag to its stashed value exactly once. *)
C25_RestoredExactlyOnce ==
    (context.has_prev /\ Terminal)
    => (deterministic_mode = context.prev /\ hist.restores = 1)

(* C25, amended: an invocation that changed the deterministic flag leaves  *)
(* it at its prior value on every exit path; the finally block restores    *)
(* it once, after the preparation's handler has already restored it once   *)
(* when applying the deterministic settings failed.                        *)
C25_RestoredOnEveryExit ==
    ( /\ context.deterministic
      /\ ~hist.flag_at_entry
      /\ Terminal
      /\ raised # UnknownAgentError )
    => ( /\ deterministic_mode = FALSE
         /\ hist.restores = IF raised = SettingsError THEN 2 ELSE 1 )

C25_Witness ==
    /\ fn \in SagFns
    /\ context.deterministic
    /\ ~hist.flag_at_entry
    /\ pc = "raised"
    /\ raised = SettingsError
    /\ hist.restores = 2
    /\ deterministic_mode = FALSE

(* C35: invoke_sag and invoke_sag_async never produce a Result whose       *)
(* status is "partial": a returned Result is a success or a failure.       *)
C35_NoPartialResult ==
    fn \in SagFns =>
        /\ result.status # "partial"
        /\ (pc = "returned" => result.status \in {"success", "failure"})

C35_Witness ==
    /\ fn \in SagFns
    /\ pc = "returned"
    /\ result.status = "failure"
    /\ hist.body >= 2
    /\ hist.failed.execute >= 1
    /\ hist.failed.post_eval >= 1

(* C38: every delegation is attempted at least once: a failure Result      *)
(* reports at least one attempt, an attempt has actually run, and the      *)
(* error is the text of an exception, not of an absent one.                *)
C38_AttemptedAtLeastOnce ==
    (fn \in SagFns /\ pc = "returned" /\ result.status = "failure")
    => ( /\ hist.pre_eval >= 1
         /\ result.attempts >= 1
         /\ result.error # Str(NoError) )

(* C8: a fail-closed post-evaluation failure is an attempt failure: the    *)
(* call still returns a Result, a failure Result is returned only after    *)
(* all max_attempts attempts were started from pre-evaluation, and when    *)
(* post-evaluation fails on every attempt the body has run max_attempts    *)
(* times and the error is the fail-closed post-evaluation message.         *)
C8_PostEvalFailureIsRetried ==
    ( /\ fn \in SagFns
      /\ max_attempts >= 1
      /\ hist.failed.post_eval >= 1 )
    => ( /\ pc # "raised"
         /\ (pc = "exhausted" => attempt = max_attempts)
         /\ (pc = "returned" /\ result.status = "failure"
               => hist.pre_eval = max_attempts)
         /\ (pc = "returned" /\ hist.failed.post_eval = max_attempts
               => /\ hist.body = max_attempts
                  /\ result.status = "failure"
                  /\ result.error = Str(PostEvalFailClosed)) )

C8_Witness ==
    /\ fn \in SagFns
    /\ max_attempts >= 2
    /\ hist.failed.post_eval = max_attempts
    /\ pc = "returned"
    /\ hist.body = max_attempts
    /\ result.status = "failure"

(* C9: with max_attempts = N >= 1 and backoff_ms = b, the waits made so    *)
(* far are one per completed failed attempt that is not the last (so N-1   *)
(* when all attempts fail and none after the final attempt), each of b     *)
(* milliseconds; with b = 0 there is no wait.                              *)
C9_ConstantBackoffBetweenAttempts ==
    (fn \in SagFns /\ hist.loop_begun /\ max_attempts >= 1)
    => ( /\ Len(hist.sleeps) =
               IF backoff_ms > 0 THEN Min(attempt, max_attempts - 1) ELSE 0
         /\ \A i \in 1..Len(hist.sleeps) :
               hist.sleeps[i].num * 1000 = backoff_ms * hist.sleeps[i].den
         /\ (pc = "returned" /\ result.status = "failure" /\ backoff_ms > 0
               => Len(hist.sleeps) = max_attempts - 1) )

C9_Witness ==
    /\ fn \in SagFns
    /\ max_attempts = 3
    /\ backoff_ms > 0
    /\ pc = "returned"
    /\ result.status = "failure"
    /\ Len(hist.sleeps) = 2

(* C10: a success Result is returned by the first attempt k in which every *)
(* phase passes: attempts = k, k-1 attempts failed before it, the output   *)
(* is the one that attempt produced, and no further attempt is started.    *)
C10_SuccessOnFirstPassingAttempt ==
    /\ (fn \in SagFns /\ pc \in {"finally", "returned"} /\ result.status = "success")
         => ( /\ result.attempts = TotalFailed + 1
              /\ result.attempts = hist.pre_eval
              /\ result.attempts = attempt + 1
              /\ result.attempts <= max_attempts
              /\ result.output = output
              /\ output \in Outputs )
    /\ (fn \in SagFns /\ pc = "success") => TotalFailed = attempt
    /\ (fn \in SagFns /\ pc \in {"finally", "returned"} /\ result.status = "failure")
         => TotalFailed = max_attempts

C10_Witness ==
    /\ fn = "invoke_sag"
    /\ pc = "returned"
    /\ result.status = "success"
    /\ result.attempts = 2
    /\ TotalFailed = 1

(* C11: when the MAG body raises E, invoke_mag raises that same E to its    *)
(* caller, with or without a running event loop around the caller.         *)
C11_MagReraisesBodyException ==
    ( /\ fn = "invoke_mag"
      /\ pc = "raised"
      /\ hist.body = 1
      /\ hist.failed.execute = 1 )
    => raised = hist.body_error

(* C12: with durable mode enabled, when resume(run_id) returns a state     *)
(* holding a stored result, invoke_mag returns exactly that result and     *)
(* logs one resume event; the body is never run and no checkpoint is made. *)
C12_ResumeShortCircuits ==
    (fn = "invoke_mag" /\ hist.resume_outcome = "result")
    => ( /\ pc \in {"finally", "returned"}
         /\ pending = NoError
         /\ result.output = StoredResult
         /\ hist.resume_events =
               <<[status |-> "resumed", run_id |-> run_id, agent_slug |-> slug]>>
         /\ hist.body = 0
         /\ hist.checkpoints = <<>> )

C12_Witness ==
    /\ fn = "invoke_mag"
    /\ durable_enabled
    /\ hist.resume_outcome = "result"
    /\ pc = "returned"
    /\ result.output = StoredResult
    /\ Len(hist.resume_events) = 1
    /\ hist.body = 0

(* C13: with durable mode enabled and nothing to resume, a successful      *)
(* invoke_mag makes exactly one checkpoint call, after the body completed  *)
(* successfully, under step id "final", keyed by the call's run_id, tagged *)
(* with the agent slug and holding the output that is returned; an         *)
(* invoke_mag that raises makes none.                                      *)
C13_CheckpointAfterSuccess ==
    fn = "invoke_mag"
    => ( /\ Len(hist.checkpoints) <= 1
         /\ \A i \in 1..Len(hist.checkpoints) :
               /\ hist.checkpoints[i].run_id = run_id
               /\ hist.checkpoints[i].step_id = "final"
               /\ hist.checkpoints[i].agent_slug = slug
               /\ hist.checkpoints[i].state = output
               /\ output \in Outputs
               /\ hist.body = 1
               /\ hist.failed.execute = 0
               /\ hist.finalize = 1
         /\ (pc = "returned" /\ durable_enabled /\ hist.resume_outcome # "result"
               => /\ Len(hist.checkpoints) = 1
                  /\ hist.checkpoints[1].state = result.output)
         /\ (~durable_enabled => hist.checkpoints = <<>>)
         /\ (pc = "raised" => hist.checkpoints = <<>>) )

C13_Witness ==
    /\ fn = "invoke_mag"
    /\ durable_enabled
    /\ run_id \in CallerRunIds
    /\ hist.resume_outcome = "no_result"
    /\ pc = "returned"
    /\ Len(hist.checkpoints) = 1
    /\ hist.checkpoints[1].ok
    /\ hist.checkpoints[1].state = result.output

(* C14: a failure of the durable collaborator never changes the outcome of *)
(* invoke_mag: it is never raised to the caller; after a failed resume the *)
(* body runs and its output is what is returned; after a failed checkpoint *)
(* invoke_mag still returns the body's output.                             *)
C14_DurableFailureSwallowed ==
    fn = "invoke_mag"
    => ( /\ pending # DurableIOError
         /\ raised # DurableIOError
         /\ (hist.resume_outcome = "raise"
               => /\ hist.resume_events = <<>>
                  /\ pc # "bound"
                  /\ (pc = "returned"
                        => /\ hist.body = 1
                           /\ output \in Outputs
                           /\ result.output = output))
         /\ (Len(hist.checkpoints) = 1 /\ ~hist.checkpoints[1].ok
               => /\ pc \in {"finally", "returned"}
                  /\ output \in Outputs
                  /\ result.output = output) )

C14_Witness ==
    /\ fn = "invoke_mag"
    /\ hist.resume_outcome = "raise"
    /\ Len(hist.checkpoints) = 1
    /\ ~hist.checkpoints[1].ok
    /\ pc = "returned"
    /\ hist.body = 1
    /\ result.output = output

(* C15: an unknown agent or a non-async entrypoint makes invoke_sag and    *)
(* invoke_sag_async fail before the attempt loop: no attempt is started,   *)
(* nothing is retried and no backoff wait is made, whatever max_attempts.  *)
C15_ConfigErrorsFailFast ==
    fn \in SagFns
    => ( /\ (UnknownAgentError \in {pending, raised}
               => /\ ~hist.loop_begun
                  /\ hist.pre_eval = 0
                  /\ hist.sleeps = <<>>)
         /\ (~entry_async
               => /\ hist.pre_eval = 0
                  /\ hist.body = 0
                  /\ TotalFailed = 0
                  /\ hist.sleeps = <<>>) )

(* C16: an attempt whose output the model-output check blocks is a failed  *)
(* attempt: the loop goes on to the next attempt while attempts remain and *)
(* otherwise a failure Result is returned, and a success Result never      *)
(* carries the output of an attempt that was blocked.                      *)
C16_BlockedOutputIsFailedAttempt ==
    (fn \in SagFns /\ max_attempts >= 1)
    => ( /\ hist.failed.model_output = Cardinality(hist.blocked_at)
         /\ (hist.blocked_at # {} => moderation_enabled /\ pc # "raised")
         /\ (attempt \in hist.blocked_at
               => pc \in {"retry", "exhausted", "finally", "returned"})
         /\ (pc \in {"success", "finally", "returned"} /\ result.status # "failure"
               => attempt \notin hist.blocked_at)
         /\ (result.status = "success"
               => (result.attempts - 1) \notin hist.blocked_at)
         /\ (pc = "returned" /\ Cardinality(hist.blocked_at) = max_attempts
               => /\ result.status = "failure"
                  /\ result.attempts = max_attempts
                  /\ hist.body = max_attempts
                  /\ result.error = Str(ModelOutputBlocked)) )

C16_Witness ==
    /\ fn \in SagFns
    /\ moderation_enabled
    /\ max_attempts = 3
    /\ hist.blocked_at = {0, 1}
    /\ pc = "returned"
    /\ result.status = "success"
    /\ result.attempts = 3

(***************************************************************************)
(* Properties of the bridge (SpecBridge)                                   *)
(***************************************************************************)

(* C4: when the coroutine raises E, the bridge raises that same E to its   *)
(* caller, with or without a running loop, after running the coroutine     *)
(* exactly once.                                                           *)
C4_BridgePropagatesException ==
    (b_pc = "done" /\ b_coro.kind = "raise")
    => (b_out = b_coro /\ b_hist.runs = 1)

(* C24: the bridge returns the coroutine's result with and without a       *)
(* running loop; under a running loop the coroutine has run exactly once   *)
(* in a worker thread that has ended before the bridge returns; and no     *)
(* call ends with the loop-already-running error.                          *)
C24_BridgeReturnsResult ==
    b_pc = "done" =>
        /\ (b_coro.kind = "return" =>
               /\ b_out = b_coro
               /\ b_hist.runs = 1
               /\ (b_loop => b_thread = "dead"))
        /\ b_out # Raised(LoopRunningError)

(***************************************************************************)
(* Properties of delegations sharing one SkillRuntime (SpecSkill)          *)
(***************************************************************************)
LiveInstances(sid) ==
    {t \in DOMAIN sk_inst : sk_inst[t][sid] \in {"starting", "running", "stopping"}}

ServersRunning ==
    {sid \in DOMAIN sk_servers :
        sk_servers[sid] # 0 /\ sk_inst[sk_servers[sid]][sid] = "running"}

DeclaresMcp(t) ==
    /\ SkillDesc(sk_task[t].skill).has_mcp_param
    /\ \E perm \in SkillDesc(sk_task[t].skill).permissions : perm.scheme = "mcp"

(* C17: with several invocations running on one SkillRuntime, each         *)
(* configured server has at most one instance started or being started,    *)
(* and no server is being started while another is being stopped.          *)
C17_StartStopSerialized ==
    /\ \A sid \in DOMAIN sk_servers : Cardinality(LiveInstances(sid)) <= 1
    /\ ~ \E t1, t2 \in DOMAIN sk_task :
            sk_task[t1].pc = "await_start" /\ sk_task[t2].pc = "await_stop"

(* C18: while a delegation's skill body holds a runtime, the servers that  *)
(* were running when the body was called stay running, whatever the other  *)
(* delegations do, and its last tool call reaches them.                    *)
C18_DelegationsIndependent ==
    \A t \in DOMAIN sk_task :
        /\ (sk_task[t].pc = "body" => sk_task[t].using \subseteq ServersRunning)
        /\ ~sk_task[t].lost

(* C19: a skill whose entrypoint declares the runtime parameter and that   *)
(* declares a scoped permission has its body called only with the registry *)
(* enabled and started and with a runtime; otherwise invoke_async raises   *)
(* without calling the body.                                               *)
C19_RequiredRuntimeOrRaise ==
    \A t \in DOMAIN sk_task :
        DeclaresMcp(t)
        => ( /\ (sk_task[t].pc = "body"
                   => /\ sk_task[t].called_with.enabled
                      /\ sk_task[t].called_with.started
                      /\ sk_task[t].called_with.registry
                      /\ sk_task[t].called_with.runtime # 0
                      /\ sk_task[t].mcp_runtime # 0)
             /\ (sk_task[t].called => sk_enable_mcp)
             /\ (sk_task[t].pc = "done" /\ ~sk_task[t].called
                   => sk_task[t].outcome = "raised") )

C19_Witness ==
    \E t1, t2 \in DOMAIN sk_task :
        /\ DeclaresMcp(t1)
        /\ sk_task[t1].pc = "body"
        /\ sk_task[t1].called_with.started
        /\ sk_task[t1].called_with.runtime # 0
        /\ DeclaresMcp(t2)
        /\ SkillDesc(sk_task[t2].skill).is_async
        /\ sk_task[t2].pc = "done"
        /\ ~sk_task[t2].called
        /\ sk_task[t2].outcome = "raised"

(* C20: the runtime a skill body holds is its own instance, granted        *)
(* exactly the "mcp:" permissions the skill declares until the body itself *)
(* grants or revokes one; what another body grants or revokes on its       *)
(* runtime never changes it.                                               *)
C20_RuntimeLeastPrivilege ==
    \A t \in DOMAIN sk_task :
        (sk_task[t].pc = "body" /\ sk_task[t].mcp_runtime # 0)
        => ( /\ sk_runtimes[sk_task[t].mcp_runtime] = sk_task[t].expected
             /\ (~sk_task[t].changed
                   => sk_runtimes[sk_task[t].mcp_runtime] =
                        {perm \in SkillDesc(sk_task[t].skill).permissions :
                            perm.scheme = "mcp"})
             /\ \A u \in DOMAIN sk_task :
                   u # t => sk_task[u].mcp_runtime # sk_task[t].mcp_runtime )

C20_Witness ==
    \E t1, t2 \in DOMAIN sk_task :
        /\ t1 # t2
        /\ sk_task[t1].pc = "body"
        /\ sk_task[t2].pc = "body"
        /\ sk_task[t1].changed
        /\ ~sk_task[t2].changed
        /\ sk_runtimes[sk_task[t1].mcp_runtime] = {}
        /\ sk_runtimes[sk_task[t2].mcp_runtime] = {McpPermB}

OptionalMcp(t) ==
    /\ SkillDesc(sk_task[t].skill).has_mcp_param
    /\ SkillDesc(sk_task[t].skill).is_async
    /\ ~DeclaresMcp(t)

(* C21: an asynchronous skill that takes the runtime parameter but         *)
(* declares no scoped permission always has its body called, whether the   *)
(* registry is disabled, failed to start or started; the invocation ends   *)
(* with the body's own outcome, and the body is given no runtime when the  *)
(* registry is not enabled and started.                                    *)
C21_OptionalRuntimeNeverFails ==
    \A t \in DOMAIN sk_task :
        OptionalMcp(t) =>
            /\ (sk_task[t].pc = "done" => sk_task[t].called /\ ~sk_task[t].lost)
            /\ (sk_task[t].pc = "body" =>
                   \/ sk_task[t].called_with.runtime = 0
                   \/ /\ sk_task[t].called_with.enabled
                      /\ sk_task[t].called_with.started
                      /\ sk_task[t].called_with.registry)

C21_Witness ==
    \E t \in DOMAIN sk_task :
        /\ OptionalMcp(t)
        /\ sk_task[t].pc = "body"
        /\ sk_task[t].called_with.enabled
        /\ ~sk_task[t].called_with.registry
        /\ sk_task[t].called_with.runtime = 0

(* C22: when an invocation with auto-cleanup returns or raises, no server  *)
(* instance started for that call is left running and, if the call went    *)
(* through a cleanup, the runtime records the servers as not started; a    *)
(* call that found the servers already started leaves them as they are.    *)
C22_AutoCleanupStopsOwnServers ==
    [][\A t \in DOMAIN sk_task :
          (sk_task[t].auto_cleanup /\ sk_task[t].pc # "done" /\ sk_task'[t].pc = "done") =>
              /\ \A sid \in DOMAIN sk_servers : sk_inst'[t][sid] # "running"
              /\ (sk_task[t].pc = "await_stop" => ~sk_mcp_started')
              /\ (sk_task[t].pc = "body" /\ ~sk_task[t].mcp_started_here =>
                     UNCHANGED <<sk_servers, sk_inst, sk_mcp_started>>)]_vars

(* C23: invoke_async raises for every skill whose entrypoint is not        *)
(* asynchronous, with or without the runtime parameter, and the            *)
(* synchronous entrypoint is never called.                                 *)
C23_SyncSkillRaisesUncalled ==
    \A t \in DOMAIN sk_task :
        ~SkillDesc(sk_task[t].skill).is_async =>
            /\ ~sk_task[t].called
            /\ sk_task[t].pc # "body"
            /\ (sk_task[t].pc = "done" => sk_task[t].outcome = "raised")

C23_Witness ==
    \E t1, t2 \in DOMAIN sk_task :
        /\ sk_task[t1].skill = "sync"
        /\ sk_task[t2].skill = "sync_plain"
        /\ sk_task[t1].pc = "done"
        /\ sk_task[t2].pc = "done"
        /\ sk_task[t1].outcome = "raised"
        /\ sk_task[t2].outcome = "raised"
        /\ sk_enable_mcp
        /\ sk_registry

(***************************************************************************)
(* Properties of invocations and their callers' objects (SpecCalls)        *)
(***************************************************************************)

(* C26: whenever invoke_mag is given a context map, empty or not, the      *)
(* caller's map holds the run id of the run from the entry of the call to  *)
(* its end: the value the map already held, or else a newly generated one. *)
C26_CallerMapHoldsRunId ==
    [][\A i \in DOMAIN c_inv :
          ( /\ c_inv'[i] # c_inv[i]
            /\ c_inv'[i].fn = "invoke_mag"
            /\ c_inv'[i].arg # "none" ) =>
              /\ c_maps'[c_inv'[i].arg].run_id = c_inv'[i].run_id
              /\ (c_inv[i].pc = "idle" =>
                     c_inv'[i].run_id =
                         IF c_maps[c_inv'[i].arg].run_id # NoRunId
                         THEN c_maps[c_inv'[i].arg].run_id
                         ELSE Uuid(c_uuid + 1))]_vars

(* C27: no two invocations, one after the other or overlapping, use the    *)
(* same run id.                                                            *)
C27_RunIdUnique ==
    \A i, j \in DOMAIN c_inv :
        (i # j /\ c_inv[i].pc # "idle" /\ c_inv[j].pc # "idle")
        => c_inv[i].run_id # c_inv[j].run_id

(* C28: no step of invoke_sag or invoke_sag_async changes the context map  *)
(* of the delegation it was given, its set of keys included.               *)
C28_DelegationUnchanged ==
    [][\A i \in DOMAIN c_inv :
          (c_inv'[i] # c_inv[i] /\ c_inv'[i].fn \in SagFns) =>
              c_maps'[c_inv'[i].arg] = c_maps[c_inv'[i].arg]]_vars

(* C29: the raw provider configuration of the cached descriptor is never   *)
(* changed, and an invocation that is not deterministic makes its plans    *)
(* from the unpatched provider settings.                                   *)
C29_CachedDescriptorUnchanged ==
    /\ c_cache.provider_config = "base"
    /\ \A i \in DOMAIN c_inv :
          (c_inv[i].pc # "idle" /\ ~c_inv[i].deterministic)
          => c_inv[i].agent_config = BaseConfig

C29_Witness ==
    \E i, j \in DOMAIN c_inv :
        /\ c_inv[i].pc = "done"
        /\ c_inv[i].deterministic
        /\ c_inv[i].agent_config = PatchedConfig
        /\ c_inv[j].pc # "idle"
        /\ ~c_inv[j].deterministic
        /\ c_inv[j].run_id.n > c_inv[i].run_id.n
        /\ c_inv[j].agent_config = BaseConfig

(***************************************************************************)
(* Properties of the metrics registry (SpecMetrics)                        *)
(***************************************************************************)
RecordsCounted ==
    {t \in DOMAIN m_thr :
        m_thr[t].op = "record" /\ m_thr[t].pc \notin {"idle", "load_total", "store_total"}}

RecordsDone == {t \in DOMAIN m_thr : m_thr[t].op = "record" /\ m_thr[t].pc = "done"}

RecordsInProgress ==
    {t \in DOMAIN m_thr : m_thr[t].op = "record" /\ m_thr[t].pc \notin {"idle", "done"}}

C36_ExitedAlone(i) ==
    \/ c_inv[i].pc = "running" /\ c_inv'[i].pc = "done" /\ ~c_inv[i].overlapped
    \/ c_inv[i].pc = "idle" /\ c_inv'[i].pc = "done" /\ ~OthersRunning(i)

(* C36: when an invocation that no other invocation overlapped exits, the  *)
(* deterministic flag equals the value it had immediately before the call  *)
(* began, whatever the flag was, whatever map was passed (one reused from  *)
(* an earlier deterministic call included) and whether or not the call     *)
(* asks for deterministic mode.                                            *)
C36_FlagAsBeforeCall ==
    [][\A i \in Invocations :
          C36_ExitedAlone(i) => c_flag' = c_inv'[i].flag0]_vars

(***************************************************************************)
(* Properties of tool calls through the protocol runtime (SpecTool)        *)
(***************************************************************************)
(* the call under way or finished has reached the registry *)
ReachedRegistry == t_registry_calls - t_call.calls_before

ToolCallAllowed ==
    t_call.permitted /\ t_call.policy \notin {"deny", "require-approval"}

(* C31: execute_tool reaches the registry only when the runtime held the   *)
(* permission for the server and the agent policy for the tool is neither  *)
(* deny nor require-approval; in every other case it returns a failure     *)
(* result and the registry is not called.                                  *)
C31_RegistryOnlyWhenAllowed ==
    t_call.pc # "idle" =>
        /\ ReachedRegistry \in {0, 1}
        /\ (ReachedRegistry = 1 => ToolCallAllowed)
        /\ (~ToolCallAllowed =>
               /\ ReachedRegistry = 0
               /\ t_call.pc = "returned"
               /\ ~t_call.result.success
               /\ t_call.result.origin = "runtime")

(* C32: a failing observer does not break execute_tool: once the registry  *)
(* has answered, the call returns the registry's result, the registry      *)
(* having been called exactly once, and raises nothing.                    *)
C32_ObserverFailureSwallowed ==
    (t_observer = "failing" /\ ToolCallAllowed /\ t_call.pc \notin {"idle", "awaiting"})
    => ( /\ t_call.pc = "returned"
         /\ t_call.result.origin = "registry"
         /\ ReachedRegistry = 1 )

(***************************************************************************)
(* Properties of the session store (SpecStore)                             *)
(***************************************************************************)
UpsertsComplete == \A w \in Writers : s_workers[w].pc = "done"
UpsertedSessions == {SessionOf(w) : w \in Writers}

(* C33: concurrent upserts of different sessions for one engine, from      *)
(* threads of one process through the same or different instances or from  *)
(* different processes, lose no session: once all upserts have completed   *)
(* the file holds every upserted session and list returns every one.       *)
C33_NoSessionLost ==
    /\ UpsertsComplete => UpsertedSessions \subseteq _load_all(s_file)
    /\ (s_workers[Lister].pc \in {"loaded", "funlocked", "done"}
            /\ s_workers[Lister].after_all)
       => UpsertedSessions \subseteq s_workers[Lister].sessions

C33_Witness ==
    /\ UpsertsComplete
    /\ s_workers[Lister].pc = "done"
    /\ s_workers[Lister].after_all
    /\ s_workers[Lister].sessions = UpsertedSessions
    /\ \E u, v \in Writers : s_workers[u].proc # s_workers[v].proc

(***************************************************************************)
(* Properties of the newline-delimited JSON parser (SpecJson)              *)
(***************************************************************************)
(* a line holding one JSON object, surrounded by white space or not *)
WellFormedLine(text) == Decodes(Strip(text))
WellFormedStream == \A i \in DOMAIN j_lines : WellFormedLine(j_lines[i])

(* line i ends with a newline, at this position of the stream *)
HasNewline(i) == i < Len(j_lines) \/ j_trailing
NewlineAt(i) == Len(JoinLines(SubSeq(j_lines, 1, i)))

(* the lines whose object is due: completed by the text fed so far, or     *)
(* left without a newline when flush has run                               *)
LinesDue ==
    {i \in DOMAIN j_lines :
        \/ HasNewline(i) /\ NewlineAt(i) <= j_fed
        \/ ~HasNewline(i) /\ j_pc = "flushed"}

(* C34: however a stream of well-formed newline-delimited JSON objects is  *)
(* cut into chunks, feed and then flush emit each object exactly once and  *)
(* in input order: the object of a line by the feed that completes the     *)
(* line, a last object without a newline by flush, which leaves the buffer *)
(* empty.                                                                  *)
C34_EachObjectOnceInOrder ==
    WellFormedStream =>
        /\ DOMAIN j_out = LinesDue
        /\ \A i \in DOMAIN j_out :
            /\ j_out[i].obj = json_loads(Strip(j_lines[i]))
            /\ IF HasNewline(i)
               THEN /\ j_out[i].by = "feed"
                    /\ j_out[i].from < NewlineAt(i)
                    /\ NewlineAt(i) <= j_out[i].to
               ELSE j_out[i].by = "flush"
        /\ (j_pc = "flushed" => j_pending = <<>>)

C34_Witness ==
    /\ WellFormedStream
    /\ j_pc = "flushed"
    /\ Len(j_lines) = 2
    /\ Len(j_out) = 2
    /\ j_out[1].by = "feed" /\ j_out[1].from > 0
    /\ j_out[2].by = "flush"
    /\ j_pending = <<>>

(* how often an object has been emitted, and how many lines hold it *)
TimesEmitted(k) == Cardinality({i \in DOMAIN j_out : j_out[i].obj = k})
TimesWritten(k) ==
    Cardinality({i \in DOMAIN j_lines :
                    WellFormedLine(j_lines[i]) /\ json_loads(Strip(j_lines[i])) = k})

(* C37: a complete line that cannot be decoded does not make the           *)
(* well-formed lines fed after it be lost: when the stream (well-formed    *)
(* and undecodable lines) has been fed and flushed, every well-formed      *)
(* object has been emitted exactly once.                                   *)
C37_MalformedLineLosesNothing ==
    ( /\ j_pc = "flushed"
      /\ \A i \in DOMAIN j_lines : WellFormedLine(j_lines[i]) \/ j_lines[i] = BadLine )
    => \A k \in ObjectBodies : TimesEmitted(k) = TimesWritten(k)

(***************************************************************************)
(* Properties of execute_run (SpecRun)                                     *)
(***************************************************************************)
(* C39: execute_run runs the MAG engine and then the SAG engine, once      *)
(* each: an exception from a runner is kept as an error entry and a result *)
(* with return code -1 and is not propagated, the later engine still runs, *)
(* and the outcome, one result per role, is recorded in the metrics        *)
(* registry exactly once.                                                  *)
C39_BothEnginesOnceRecordedOnce ==
    /\ r_pc # "raised"
    /\ r_recorded = r_done
    /\ r_metrics.runs_total = r_done
    /\ Len(r_runs) <= Len(role_sequence)
    /\ \A i \in DOMAIN r_runs :
        /\ r_runs[i].role = role_sequence[i]
        /\ r_runs[i].engine = engine_for(r_spec, role_sequence[i])
        /\ r_results[i].role = role_sequence[i]
        /\ r_runs[i].raised =>
            /\ r_results[i].returncode = -1
            /\ r_results[i].error = r_runs[i].msg
            /\ \E e \in DOMAIN r_errors : r_errors[e] = r_runs[i].msg
    /\ r_pc \in {"finish", "returned"} =>
        /\ Len(r_runs) = Len(role_sequence)
        /\ Len(r_results) = Len(role_sequence)

C39_Witness ==
    /\ r_pc = "returned"
    /\ r_runs[1].raised
    /\ r_results[1].returncode = -1
    /\ ~r_runs[2].raised
    /\ r_results[2].returncode = 0
    /\ r_recorded = 1
    /\ r_metrics.runs_failed = 1

(***************************************************************************)
(* Properties of overlapping invocations (SpecDet)                         *)
(***************************************************************************)

(* C7: while a deterministic invocation is in progress the process-wide    *)
(* flag is true, whatever other deterministic invocations start or finish. *)
C7_FlagHeldWhileRunning ==
    \A i \in DOMAIN d_inv :
        (d_inv[i].deterministic /\ d_inv[i].pc = "running") => d_flag = TRUE

====
